---- MODULE Spec2Model ----
(***************************************************************************)
(* ENS name normalization (ENSIP-15) as implemented by ens-normalize-rs.   *)
(* Strings are sequences of code points; tokens, labels and errors are     *)
(* records.  The engine (EnsNameNormalizer) owns the code-point tables     *)
(* `specs`; every API call tokenizes, validates and emits one input.       *)
(***************************************************************************)
EXTENDS Integers, Sequences, FiniteSets, TLC

VARIABLES specs, input, op, pc, result, prev, calls

vars == <<specs, input, op, pc, result, prev, calls>>

(***************************************************************************)
(* Bounds of the model.                                                    *)
(***************************************************************************)
MaxLen == 3
MaxAsciiLen == 4
MaxChainLen == 3
MaxCalls == 2
MaxRuleLen == 4

(***************************************************************************)
(* Program constants (src/src/constants.rs, src/src/utils.rs).             *)
(***************************************************************************)
CP_STOP == 46
CP_FE0F == 65039
CP_XI_SMALL == 958
CP_XI_CAPITAL == 926
CP_UNDERSCORE == 95
CP_HYPHEN == 45
LAST_ASCII_CP == 127
MAX_SCALAR == 1114111

(***************************************************************************)
(* Sequence helpers.                                                       *)
(***************************************************************************)
Range(s) == {s[i] : i \in DOMAIN s}

RECURSIVE Flatten(_)
Flatten(ss) == IF ss = <<>> THEN <<>> ELSE Head(ss) \o Flatten(Tail(ss))

RECURSIVE SumSeq(_)
SumSeq(s) == IF s = <<>> THEN 0 ELSE Head(s) + SumSeq(Tail(s))

Slice(s, from, to) == IF from > to THEN <<>> ELSE SubSeq(s, from, to)

\* All strings over an alphabet of at most n code points.
Strings(alphabet, n) == UNION {[1..k -> alphabet] : k \in 0..n}

\* The iteration orders a freshly built std::collections::HashSet can have.
HashSetOrders(S) ==
    {f \in [1..Cardinality(S) -> S] : \A i, j \in 1..Cardinality(S) : i # j => f[i] # f[j]}

(***************************************************************************)
(* utils.rs                                                                *)
(***************************************************************************)
IsScalar(cp) == cp \in 0..MAX_SCALAR /\ ~(cp \in 55296..57343)

filter_fe0f(cps) == SelectSeq(cps, LAMBDA cp : cp # CP_FE0F)

\* cps -> String: code points that are no Unicode scalar value are dropped.
cps2str(cps) == SelectSeq(cps, IsScalar)

cp2str(cp) == cps2str(<<cp>>)

\* String -> cps: one code point per char.
str2cps(str) == str

is_ascii(cp) == cp <= LAST_ASCII_CP

(***************************************************************************)
(* Static data: the parts of spec.json and nf.json the engine is built     *)
(* from.  Code points are the ones the repository's tests use.             *)
(*   46 .   45 -   95 _   97 a   65 A   32 space   173 soft hyphen         *)
(*   771 combining tilde   772 combining macron   227 a-tilde   257 a-macron*)
(*   8217 right quote (fenced)   8205 ZWJ   65039 FE0F                     *)
(*   958 xi   926 XI   945 alpha   1072 cyrillic a                         *)
(*   8490 kelvin sign   107 k   1073 be   1074 ve   1086 cyrillic o        *)
(*   128692 bicyclist   9794 male sign   128169 poo                        *)
(***************************************************************************)
DefaultSpecJson ==
    [ emoji |-> {<<128692>>, <<9794, 65039>>, <<128692, 8205, 9794, 65039>>,
                 <<128169, 65039>>},
      ignored |-> {173, 65039},
      mapped |-> (65 :> <<97>>) @@ (926 :> <<958>>) @@ (8490 :> <<107>>),
      fenced |-> {8217, 8260},
      cm |-> {771, 772},
      nsm |-> {771, 772},
      nsm_max |-> 4,
      nfc_check |-> {771, 772},
      groups |-> << [name |-> "Latin", primary |-> {97, 107, 45, 95, 8217, 8260, 771, 772, 227, 257},
                     secondary |-> {958}, cm |-> {}],
                    [name |-> "Greek", primary |-> {958, 945, 45, 95, 8217, 8260},
                     secondary |-> {}, cm |-> {}],
                    [name |-> "Cyrillic",
                     primary |-> {1072, 1073, 1074, 1086, 45, 95, 8217, 8260, 771},
                     secondary |-> {}, cm |-> {}] >>,
      whole_map |-> (1072 :> [kind |-> "WholeObject", m |-> <<"Latin">>])
                    @@ (1086 :> [kind |-> "WholeObject", m |-> <<"Greek">>])
                    @@ (1073 :> [kind |-> "Number", m |-> <<>>])
                    @@ (945 :> [kind |-> "Number", m |-> <<>>]) ]

\* A table in which the classes overlap: CodePointsSpecs::new accepts it.
OverlapSpecJson ==
    [ emoji |-> {<<128692>>, <<9794, 65039>>},
      ignored |-> {173, 65039, 97, 65},
      mapped |-> (65 :> <<97>>) @@ (45 :> <<95>>) @@ (46 :> <<97>>),
      fenced |-> {8217},
      cm |-> {771},
      nsm |-> {771},
      nsm_max |-> 4,
      nfc_check |-> {771},
      groups |-> << [name |-> "Latin", primary |-> {97, 45, 46, 95, 771, 227},
                     secondary |-> {}, cm |-> {}] >>,
      whole_map |-> (1072 :> [kind |-> "WholeObject", m |-> <<"Latin">>]) ]

DefaultNfJson == [ decomp |-> (227 :> <<97, 771>>) @@ (257 :> <<97, 772>>) ]

(***************************************************************************)
(* code_points/types.rs, code_points/specs.rs                              *)
(***************************************************************************)
ParsedGroup(g) ==
    [ name |-> g.name,
      primary |-> g.primary,
      secondary |-> g.secondary,
      primary_plus_secondary |-> g.primary \cup g.secondary,
      cm_absent |-> (g.cm = {}) ]

contains_cp(group, cp) == cp \in group.primary_plus_secondary

\* Variant of contains_all_cps: any() in place of all().
contains_some_cp(group, cps) == \E i \in DOMAIN cps : contains_cp(group, cps[i])

contains_all_cps(group, cps) == \A i \in DOMAIN cps : contains_cp(group, cps[i])

compute_valid(groups, decomp) ==
    LET valid == UNION {groups[i].primary_plus_secondary : i \in DOMAIN groups}
        ndf == UNION {Range(decomp[cp]) : cp \in valid \cap DOMAIN decomp}
    IN  valid \cup ndf

\* Byte length of a char in UTF-8 (char::len_utf8).
len_utf8(cp) == IF cp < 128 THEN 1 ELSE IF cp < 2048 THEN 2 ELSE IF cp < 65536 THEN 3 ELSE 4

\* str::len of the emoji with every FE0F removed: the sort key of the alternation.
order(emoji) == SumSeq([i \in DOMAIN filter_fe0f(emoji) |-> len_utf8(filter_fe0f(emoji)[i])])

\* The emoji sorted by `order`, longest first: the alternatives of the regex.
RECURSIVE SortEmoji(_)
SortEmoji(S) ==
    IF S = {} THEN <<>>
    ELSE LET e == CHOOSE x \in S : \A y \in S : order(x) >= order(y)
         IN  <<e>> \o SortEmoji(S \ {e})

\* Variant of create_emoji_regex_pattern: the alternatives shortest first.
RECURSIVE SortEmojiShortestFirst(_)
SortEmojiShortestFirst(S) ==
    IF S = {} THEN <<>>
    ELSE LET e == CHOOSE x \in S : \A y \in S : order(x) <= order(y)
         IN  <<e>> \o SortEmojiShortestFirst(S \ {e})

create_emoji_regex_pattern_shortest_first(emojis) == SortEmojiShortestFirst(emojis)

create_emoji_regex_pattern(emojis) == SortEmoji(emojis)

CodePointsSpecsNew(spec, nf) ==
    LET groups == [i \in DOMAIN spec.groups |-> ParsedGroup(spec.groups[i])]
    IN  [ cm |-> spec.cm,
          ignored |-> spec.ignored,
          mapped |-> spec.mapped,
          nfc_check |-> spec.nfc_check,
          whole_map |-> spec.whole_map,
          fenced |-> spec.fenced,
          groups |-> groups,
          valid |-> compute_valid(groups, nf.decomp),
          nsm |-> spec.nsm,
          nsm_max |-> spec.nsm_max,
          emoji_no_fe0f_to_pretty |->
              [k \in {filter_fe0f(e) : e \in spec.emoji} |->
                  CHOOSE e \in spec.emoji : filter_fe0f(e) = k],
          decomp |-> nf.decomp,
          emoji_regex |-> create_emoji_regex_pattern(spec.emoji) ]

is_stop(sp, cp) == cp = CP_STOP
is_valid(sp, cp) == cp \in sp.valid
is_ignored(sp, cp) == cp \in sp.ignored
is_fenced(sp, cp) == cp \in sp.fenced
is_cm(sp, cp) == cp \in sp.cm
is_nsm(sp, cp) == cp \in sp.nsm
cps_requires_check(sp, cps) == \E i \in DOMAIN cps : cps[i] \in sp.nfc_check

\* NFC of the unicode_normalization crate on the code points of the tables:
\* canonical decomposition, then composition of a starter with the mark that
\* directly follows it (all marks of the tables have the same combining class,
\* so a mark behind an uncomposed mark is blocked).
UnicodeDecomposition == (227 :> <<97, 771>>) @@ (257 :> <<97, 772>>)

UnicodeComposition == (<<97, 771>> :> 227) @@ (<<97, 772>> :> 257)

RECURSIVE Compose(_, _)
Compose(out, rest) ==
    IF rest = <<>> THEN out
    ELSE IF out # <<>> /\ <<out[Len(out)], Head(rest)>> \in DOMAIN UnicodeComposition
         THEN Compose(Slice(out, 1, Len(out) - 1)
                          \o <<UnicodeComposition[<<out[Len(out)], Head(rest)>>]>>,
                      Tail(rest))
         ELSE Compose(Append(out, Head(rest)), Tail(rest))

nfc(str) ==
    Compose(<<>>, Flatten([i \in DOMAIN str |->
        IF str[i] \in DOMAIN UnicodeDecomposition
        THEN UnicodeDecomposition[str[i]] ELSE <<str[i]>>]))

nfd_cps(cps, sp) ==
    Flatten([i \in DOMAIN cps |->
        IF cps[i] \in DOMAIN sp.decomp THEN sp.decomp[cps[i]] ELSE <<cps[i]>>])

(***************************************************************************)
(* tokens/types.rs                                                         *)
(***************************************************************************)
TokenValid(cps) == [type |-> "Valid", cps |-> cps]
TokenMapped(cp, cps) == [type |-> "Mapped", cp |-> cp, cps |-> cps]
TokenIgnored(cp) == [type |-> "Ignored", cp |-> cp]
TokenDisallowed(cp) == [type |-> "Disallowed", cp |-> cp]
TokenStop(cp) == [type |-> "Stop", cp |-> cp]
TokenNfc(inp, cps) == [type |-> "Nfc", input |-> inp, cps |-> cps]
TokenEmoji(inp, emoji, cps_input, cps_no_fe0f) ==
    [type |-> "Emoji", input |-> inp, emoji |-> emoji, cps_input |-> cps_input,
     cps_no_fe0f |-> cps_no_fe0f]
\* The call unwinds: `expect("emoji should be found")` failed.
TokenPanic == [type |-> "Panic"]

token_cps(t) ==
    CASE t.type \in {"Valid", "Mapped", "Nfc"} -> t.cps
      [] t.type = "Emoji" -> t.cps_no_fe0f
      [] t.type \in {"Disallowed", "Stop", "Ignored"} -> <<t.cp>>
      [] OTHER -> <<>>

\* Variant of input_size: an emoji counted by its cps without FE0F.
input_size_without_fe0f(t) ==
    CASE t.type = "Valid" -> Len(t.cps)
      [] t.type = "Nfc" -> Len(t.input)
      [] t.type = "Emoji" -> Len(t.cps_no_fe0f)
      [] t.type \in {"Mapped", "Disallowed", "Ignored", "Stop"} -> 1
      [] OTHER -> 0

input_size(t) ==
    CASE t.type = "Valid" -> Len(t.cps)
      [] t.type = "Nfc" -> Len(t.input)
      [] t.type = "Emoji" -> Len(t.cps_input)
      [] t.type \in {"Mapped", "Disallowed", "Ignored", "Stop"} -> 1
      [] OTHER -> 0

is_text(t) == t.type \in {"Valid", "Mapped", "Nfc"}
is_emoji(t) == t.type = "Emoji"
is_ignored_token(t) == t.type = "Ignored"
is_disallowed(t) == t.type = "Disallowed"
is_stop_token(t) == t.type = "Stop"

(***************************************************************************)
(* The emoji regex: an alternation of the pretty emoji, every FE0F         *)
(* optional, matched leftmost-first.  Positions are code-point positions   *)
(* (1-based, `end` exclusive); the code's byte offsets always fall on char *)
(* boundaries and name the same substrings.                                *)
(***************************************************************************)
\* End of the match of alternative p (from its k-th element) at position i, or 0.
RECURSIVE MatchAlt(_, _, _, _)
MatchAlt(p, k, s, i) ==
    IF k > Len(p) THEN i
    ELSE IF p[k] = CP_FE0F
         THEN LET taken == IF i <= Len(s) /\ s[i] = CP_FE0F
                           THEN MatchAlt(p, k + 1, s, i + 1) ELSE 0
              IN  IF taken # 0 THEN taken ELSE MatchAlt(p, k + 1, s, i)
         ELSE IF i <= Len(s) /\ s[i] = p[k] THEN MatchAlt(p, k + 1, s, i + 1) ELSE 0

\* End of the first alternative that matches at position i, or 0.
MatchAtPos(sp, s, i) ==
    LET hits == {a \in DOMAIN sp.emoji_regex : MatchAlt(sp.emoji_regex[a], 1, s, i) > i}
    IN  IF hits = {} THEN 0
        ELSE MatchAlt(sp.emoji_regex[CHOOSE a \in hits : \A b \in hits : a <= b], 1, s, i)

RECURSIVE FindIter(_, _, _)
FindIter(sp, s, pos) ==
    IF pos > Len(s) THEN <<>>
    ELSE LET e == MatchAtPos(sp, s, pos)
         IN  IF e # 0 THEN <<[start |-> pos, end |-> e]>> \o FindIter(sp, s, e)
             ELSE FindIter(sp, s, pos + 1)

finditer_emoji(sp, s) == FindIter(sp, s, 1)

(***************************************************************************)
(* tokens/tokenize.rs                                                      *)
(***************************************************************************)
\* The emoji token of the match that starts at position i, or the token NoEmoji.
NoEmoji == [type |-> "None"]

\* Variant of maybe_starts_with_emoji: the pretty form looked up with the
\* input code points, FE0F included.
maybe_starts_with_emoji_lookup_input(i, label, emojis, sp) ==
    LET at == {m \in DOMAIN emojis : emojis[m].start = i}
    IN  IF at = {} THEN NoEmoji
        ELSE LET emoji == emojis[CHOOSE m \in at : \A n \in at : m <= n]
                 input_cps == str2cps(Slice(label, emoji.start, emoji.end - 1))
                 cps_no_fe0f == filter_fe0f(input_cps)
             IN  IF input_cps \in DOMAIN sp.emoji_no_fe0f_to_pretty
                 THEN TokenEmoji(Slice(label, emoji.start, emoji.end - 1),
                                 sp.emoji_no_fe0f_to_pretty[input_cps],
                                 input_cps, cps_no_fe0f)
                 ELSE TokenPanic

maybe_starts_with_emoji(i, label, emojis, sp) ==
    LET at == {m \in DOMAIN emojis : emojis[m].start = i}
    IN  IF at = {} THEN NoEmoji
        ELSE LET emoji == emojis[CHOOSE m \in at : \A n \in at : m <= n]
                 input_cps == str2cps(Slice(label, emoji.start, emoji.end - 1))
                 cps_no_fe0f == filter_fe0f(input_cps)
             IN  IF cps_no_fe0f \in DOMAIN sp.emoji_no_fe0f_to_pretty
                 THEN TokenEmoji(Slice(label, emoji.start, emoji.end - 1),
                                 sp.emoji_no_fe0f_to_pretty[cps_no_fe0f],
                                 input_cps, cps_no_fe0f)
                 ELSE TokenPanic

\* Variant of process_one_cp: the ignored class tested before the valid one.
process_one_cp_ignored_first(cp, sp) ==
    IF is_stop(sp, cp) THEN TokenStop(cp)
    ELSE IF is_ignored(sp, cp) THEN TokenIgnored(cp)
    ELSE IF is_valid(sp, cp) THEN TokenValid(<<cp>>)
    ELSE IF cp \in DOMAIN sp.mapped THEN TokenMapped(cp, sp.mapped[cp])
    ELSE TokenDisallowed(cp)

process_one_cp(cp, sp) ==
    IF is_stop(sp, cp) THEN TokenStop(cp)
    ELSE IF is_valid(sp, cp) THEN TokenValid(<<cp>>)
    ELSE IF is_ignored(sp, cp) THEN TokenIgnored(cp)
    ELSE IF cp \in DOMAIN sp.mapped THEN TokenMapped(cp, sp.mapped[cp])
    ELSE TokenDisallowed(cp)

\* The while loop of tokenize_input from cursor input_cur.
RECURSIVE TokenizeLoop(_, _, _, _)
TokenizeLoop(sp, inp, emojis, input_cur) ==
    IF input_cur > Len(inp) THEN <<>>
    ELSE LET emoji == maybe_starts_with_emoji(input_cur, inp, emojis, sp)
         IN  IF emoji = TokenPanic THEN <<TokenPanic>>
             ELSE IF emoji # NoEmoji
             THEN <<emoji>> \o TokenizeLoop(sp, inp, emojis, input_cur + Len(emoji.input))
             ELSE <<process_one_cp(inp[input_cur], sp)>>
                      \o TokenizeLoop(sp, inp, emojis, input_cur + 1)

\* The inner for loop of perform_nfc_transform: the end of the run (0-based, exclusive).
RECURSIVE NfcRunEnd(_, _, _, _, _)
NfcRunEnd(sp, tokens, pos, end, cps) ==
    IF pos >= Len(tokens) THEN end
    ELSE LET token == tokens[pos + 1]
         IN  IF token.type \in {"Valid", "Mapped"}
             THEN IF ~cps_requires_check(sp, cps) THEN end
                  ELSE NfcRunEnd(sp, tokens, pos + 1, pos + 1, cps)
             ELSE IF token.type = "Ignored" THEN NfcRunEnd(sp, tokens, pos + 1, end, cps)
             ELSE end

\* The while loop of perform_nfc_transform at index i (0-based) with `start`.
RECURSIVE NfcLoop(_, _, _, _)
NfcLoop(sp, tokens, i, start) ==
    IF i >= Len(tokens) THEN tokens
    ELSE LET token == tokens[i + 1]
         IN  IF token.type \in {"Valid", "Mapped"}
             THEN IF cps_requires_check(sp, token_cps(token))
                  THEN LET end == NfcRunEnd(sp, tokens, i + 1, i + 1, token_cps(token))
                           st == IF start < 0 THEN i ELSE start
                           slice == Slice(tokens, st + 1, end)
                           cps == Flatten([k \in DOMAIN slice |->
                                      IF slice[k].type \in {"Valid", "Mapped"}
                                      THEN token_cps(slice[k]) ELSE <<>>])
                           str0 == cps2str(cps)
                           str == nfc(str0)
                       IN  IF str0 = str
                           THEN NfcLoop(sp, tokens, end, -1)
                           ELSE NfcLoop(sp,
                                        Slice(tokens, 1, st)
                                            \o <<TokenNfc(cps, str2cps(str))>>
                                            \o Slice(tokens, end + 1, Len(tokens)),
                                        st + 1, -1)
                  ELSE NfcLoop(sp, tokens, i + 1, i)
             ELSE IF token.type = "Ignored" THEN NfcLoop(sp, tokens, i + 1, start)
             ELSE NfcLoop(sp, tokens, i + 1, -1)

\* Variant of the loop of perform_nfc_transform: the Nfc token spliced in
\* whether or not NFC changed the code points.
RECURSIVE NfcLoopAlwaysSplice(_, _, _, _)
NfcLoopAlwaysSplice(sp, tokens, i, start) ==
    IF i >= Len(tokens) THEN tokens
    ELSE LET token == tokens[i + 1]
         IN  IF token.type \in {"Valid", "Mapped"}
             THEN IF cps_requires_check(sp, token_cps(token))
                  THEN LET end == NfcRunEnd(sp, tokens, i + 1, i + 1, token_cps(token))
                           st == IF start < 0 THEN i ELSE start
                           slice == Slice(tokens, st + 1, end)
                           cps == Flatten([k \in DOMAIN slice |->
                                      IF slice[k].type \in {"Valid", "Mapped"}
                                      THEN token_cps(slice[k]) ELSE <<>>])
                       IN  NfcLoopAlwaysSplice(sp,
                               Slice(tokens, 1, st)
                                   \o <<TokenNfc(cps, str2cps(nfc(cps2str(cps))))>>
                                   \o Slice(tokens, end + 1, Len(tokens)),
                               st + 1, -1)
                  ELSE NfcLoopAlwaysSplice(sp, tokens, i + 1, i)
             ELSE IF token.type = "Ignored" THEN NfcLoopAlwaysSplice(sp, tokens, i + 1, start)
             ELSE NfcLoopAlwaysSplice(sp, tokens, i + 1, -1)

perform_nfc_transform_always_splice(tokens, sp) == NfcLoopAlwaysSplice(sp, tokens, 0, -1)

perform_nfc_transform(tokens, sp) == NfcLoop(sp, tokens, 0, -1)

\* The while loop of collapse_valid_tokens at index i (0-based).
RECURSIVE CollapseLoop(_, _)
CollapseLoop(tokens, i) ==
    IF i >= Len(tokens) THEN tokens
    ELSE IF tokens[i + 1].type = "Valid"
         THEN LET after == {j \in (i + 1)..(Len(tokens) - 1) : tokens[j + 1].type # "Valid"}
                  j == IF after = {} THEN Len(tokens)
                       ELSE CHOOSE x \in after : \A y \in after : x <= y
                  run == Slice(tokens, i + 1, j)
                  cps == Flatten([k \in DOMAIN run |-> run[k].cps])
              IN  CollapseLoop(Slice(tokens, 1, i) \o <<TokenValid(cps)>>
                                   \o Slice(tokens, j + 1, Len(tokens)),
                               i + 1)
         ELSE CollapseLoop(tokens, i + 1)

\* Variant of collapse_valid_tokens: the loop started at the second token.
collapse_valid_tokens_from_second(tokens) == CollapseLoop(tokens, 1)

collapse_valid_tokens(tokens) == CollapseLoop(tokens, 0)

tokenize_input(inp, sp, apply_nfc) ==
    LET emojis == finditer_emoji(sp, inp)
        tokens == TokenizeLoop(sp, inp, emojis, 1)
    IN  collapse_valid_tokens(IF apply_nfc THEN perform_nfc_transform(tokens, sp) ELSE tokens)

tokenize_name(name, sp, apply_nfc) ==
    IF name = <<>> THEN [input |-> <<>>, tokens |-> <<>>]
    ELSE [input |-> name, tokens |-> tokenize_input(name, sp, apply_nfc)]

\* slice::split at the Stop tokens: the labels of a token sequence.
RECURSIVE SplitAtStop(_, _)
SplitAtStop(tokens, current) ==
    IF tokens = <<>> THEN <<current>>
    ELSE IF is_stop_token(Head(tokens))
         THEN <<current>> \o SplitAtStop(Tail(tokens), <<>>)
         ELSE SplitAtStop(Tail(tokens), Append(current, Head(tokens)))

iter_labels(name) == SplitAtStop(name.tokens, <<>>)

is_fully_emoji(label) == \A i \in DOMAIN label : is_emoji(label[i])

\* Variant of is_fully_ascii: only the Valid tokens are looked at.
is_fully_ascii_valid_only(label) ==
    \A i \in DOMAIN label :
        label[i].type = "Valid" => \A k \in DOMAIN label[i].cps : is_ascii(label[i].cps[k])

is_fully_ascii(label) ==
    \A i \in DOMAIN label : \A k \in DOMAIN token_cps(label[i]) : is_ascii(token_cps(label[i])[k])

iter_cps(label) == Flatten([i \in DOMAIN label |-> token_cps(label[i])])

CollapsedText(cps) == [type |-> "Text", cps |-> cps]

RECURSIVE CollapseTextLoop(_, _)
CollapseTextLoop(tokens, current_text_cps) ==
    IF tokens = <<>>
    THEN IF current_text_cps # <<>> THEN <<CollapsedText(current_text_cps)>> ELSE <<>>
    ELSE LET token == Head(tokens)
         IN  IF is_text(token)
             THEN CollapseTextLoop(Tail(tokens), current_text_cps \o token_cps(token))
             ELSE IF is_emoji(token)
             THEN (IF current_text_cps # <<>> THEN <<CollapsedText(current_text_cps)>> ELSE <<>>)
                      \o <<token>> \o CollapseTextLoop(Tail(tokens), <<>>)
             ELSE CollapseTextLoop(Tail(tokens), current_text_cps)

collapse_into_text_or_emoji(label) == CollapseTextLoop(label, <<>>)

collapsed_input_size(t) == IF t.type = "Text" THEN Len(t.cps) ELSE Len(t.cps_input)

\* Variant: the code points of the emoji segments are collected as well.
get_cps_of_text_and_emoji(label) ==
    LET collapsed == collapse_into_text_or_emoji(label)
    IN  Flatten([i \in DOMAIN collapsed |->
            IF collapsed[i].type = "Text" THEN collapsed[i].cps
            ELSE collapsed[i].cps_no_fe0f])

get_cps_of_not_ignored_text(label) ==
    LET collapsed == collapse_into_text_or_emoji(label)
    IN  Flatten([i \in DOMAIN collapsed |->
            IF collapsed[i].type = "Text" THEN collapsed[i].cps ELSE <<>>])

(***************************************************************************)
(* error.rs                                                                *)
(***************************************************************************)
NoError == [kind |-> "None"]
CurrableError(inner, index, sequence, maybe_suggest) ==
    [kind |-> "CurrableError", inner |-> inner, index |-> index, sequence |-> sequence,
     maybe_suggest |-> maybe_suggest]
EmptyLabel == [kind |-> "EmptyLabel"]
Invalid(sequence) == [kind |-> "Invalid", sequence |-> sequence]
InvisibleCharacter(cp) == [kind |-> "InvisibleCharacter", cp |-> cp]
NsmTooMany == [kind |-> "NsmTooMany"]
NsmRepeated == [kind |-> "NsmRepeated"]
ConfusedGroups(group1, group2) ==
    [kind |-> "ConfusedGroups", group1 |-> group1, group2 |-> group2]
\* ProcessError::Confused(String): the message, kept as its parts.
Confused(text, cps, group) == [kind |-> "Confused", text |-> text, cps |-> cps, group |-> group]
\* A panic unwinding out of the call.
Panic == [kind |-> "Panic"]

Ok == [ok |-> TRUE, err |-> NoError]
Err(e) == [ok |-> FALSE, err |-> e]

(***************************************************************************)
(* validate.rs                                                             *)
(***************************************************************************)
non_empty(label) ==
    IF \E i \in DOMAIN label : ~is_ignored_token(label[i]) THEN Ok ELSE Err(EmptyLabel)

\* Variant of check_token_types: the last offending token reported.
check_token_types_last(label) ==
    LET bad == {i \in DOMAIN label : is_disallowed(label[i]) \/ is_stop_token(label[i])}
    IN  IF bad = {} THEN Ok
        ELSE Err(Invalid(cps2str(token_cps(label[CHOOSE i \in bad : \A j \in bad : i >= j]))))

check_token_types(label) ==
    LET bad == {i \in DOMAIN label : is_disallowed(label[i]) \/ is_stop_token(label[i])}
    IN  IF bad = {} THEN Ok
        ELSE Err(Invalid(cps2str(token_cps(label[CHOOSE i \in bad : \A j \in bad : i <= j]))))

\* Variant of underscore_only_at_beginning: the index counted after the
\* leading underscores.
underscore_index_after_leading(label) ==
    LET cps == iter_cps(label)
        other == {i \in DOMAIN cps : cps[i] # CP_UNDERSCORE}
        leading_underscores ==
            IF other = {} THEN Len(cps) ELSE (CHOOSE i \in other : \A j \in other : i <= j) - 1
        middle == {i \in DOMAIN cps : i > leading_underscores /\ cps[i] = CP_UNDERSCORE}
    IN  IF middle = {} THEN Ok
        ELSE Err(CurrableError("UnderscoreInMiddle",
                               (CHOOSE i \in middle : \A j \in middle : i <= j) - 1
                                   - leading_underscores,
                               cps2str(<<CP_UNDERSCORE>>), <<>>))

underscore_only_at_beginning(label) ==
    LET cps == iter_cps(label)
        other == {i \in DOMAIN cps : cps[i] # CP_UNDERSCORE}
        leading_underscores ==
            IF other = {} THEN Len(cps) ELSE (CHOOSE i \in other : \A j \in other : i <= j) - 1
        middle == {i \in DOMAIN cps : i > leading_underscores /\ cps[i] = CP_UNDERSCORE}
    IN  IF middle = {} THEN Ok
        ELSE Err(CurrableError("UnderscoreInMiddle",
                               (CHOOSE i \in middle : \A j \in middle : i <= j) - 1,
                               cps2str(<<CP_UNDERSCORE>>), <<>>))

\* Variant of no_hyphen_at_second_and_third: positions 1 and 2 tested.
no_hyphen_at_first_and_second(label) ==
    LET cps == iter_cps(label)
    IN  IF Len(cps) >= 3 /\ cps[2] = CP_HYPHEN /\ cps[3] = CP_HYPHEN
        THEN Err(CurrableError("HyphenAtSecondAndThird", 2,
                               cps2str(<<CP_HYPHEN, CP_HYPHEN>>), <<>>))
        ELSE Ok

no_hyphen_at_second_and_third(label) ==
    LET cps == iter_cps(label)
    IN  IF Len(cps) >= 4 /\ cps[3] = CP_HYPHEN /\ cps[4] = CP_HYPHEN
        THEN Err(CurrableError("HyphenAtSecondAndThird", 2,
                               cps2str(<<CP_HYPHEN, CP_HYPHEN>>), <<>>))
        ELSE Ok

\* Variant of check_fenced: adjacent pairs tested before the last code point.
check_fenced_pairs_first(label, sp) ==
    LET cps == iter_cps(label)
        pairs == {i \in 1..(Len(cps) - 1) : is_fenced(sp, cps[i]) /\ is_fenced(sp, cps[i + 1])}
    IN  IF cps # <<>> /\ is_fenced(sp, cps[1])
        THEN Err(CurrableError("FencedLeading", 0, cps2str(<<cps[1]>>), <<>>))
        ELSE IF pairs # {}
        THEN LET i == CHOOSE x \in pairs : \A y \in pairs : x <= y
             IN  Err(CurrableError("FencedConsecutive", i - 1,
                                   cps2str(<<cps[i], cps[i + 1]>>), cp2str(cps[i])))
        ELSE IF cps # <<>> /\ is_fenced(sp, cps[Len(cps)])
        THEN Err(CurrableError("FencedTrailing", Len(cps) - 1, cps2str(<<cps[Len(cps)]>>), <<>>))
        ELSE Ok

check_fenced(label, sp) ==
    LET cps == iter_cps(label)
        pairs == {i \in 1..(Len(cps) - 1) : is_fenced(sp, cps[i]) /\ is_fenced(sp, cps[i + 1])}
    IN  IF cps # <<>> /\ is_fenced(sp, cps[1])
        THEN Err(CurrableError("FencedLeading", 0, cps2str(<<cps[1]>>), <<>>))
        ELSE IF cps # <<>> /\ is_fenced(sp, cps[Len(cps)])
        THEN Err(CurrableError("FencedTrailing", Len(cps) - 1, cps2str(<<cps[Len(cps)]>>), <<>>))
        ELSE IF pairs # {}
        THEN LET i == CHOOSE x \in pairs : \A y \in pairs : x <= y
             IN  Err(CurrableError("FencedConsecutive", i - 1,
                                   cps2str(<<cps[i], cps[i + 1]>>), cp2str(cps[i])))
        ELSE Ok

\* The for loop of check_cm_leading_emoji at collapsed token i (0-based) with `index`.
RECURSIVE CmLoop(_, _, _, _)
CmLoop(sp, collapsed, i, index) ==
    IF i >= Len(collapsed) THEN Ok
    ELSE LET token == collapsed[i + 1]
         IN  IF token.type = "Text" /\ token.cps # <<>> /\ is_cm(sp, token.cps[1])
             THEN IF i = 0
                  THEN Err(CurrableError("CmStart", index, cps2str(<<token.cps[1]>>), <<>>))
                  ELSE Err(CurrableError("CmAfterEmoji", index, cps2str(<<token.cps[1]>>), <<>>))
             ELSE CmLoop(sp, collapsed, i + 1, index + collapsed_input_size(token))

check_cm_leading_emoji(label, sp) == CmLoop(sp, collapse_into_text_or_emoji(label), 0, 0)

groups_for_cps(sp, cps) ==
    SelectSeq(sp.groups, LAMBDA group : contains_all_cps(group, cps))

\* Variant of determine_group: the last group that holds every code point.
determine_group_last(unique_cps, sp) ==
    LET found == groups_for_cps(sp, unique_cps)
    IN  IF found # <<>> THEN [ok |-> TRUE, err |-> NoError, group |-> found[Len(found)]]
        ELSE [ok |-> FALSE, err |-> Confused("no group found for", unique_cps, ""),
              group |-> Head(sp.groups)]

determine_group(unique_cps, sp) ==
    LET found == groups_for_cps(sp, unique_cps)
    IN  IF found # <<>> THEN [ok |-> TRUE, err |-> NoError, group |-> Head(found)]
        ELSE [ok |-> FALSE, err |-> Confused("no group found for", unique_cps, ""),
              group |-> Head(sp.groups)]

\* The inner while loop of check_group: NSM run from i, scanning at j (0-based).
RECURSIVE NsmInner(_, _, _, _)
NsmInner(sp, d, i, j) ==
    IF j < Len(d) /\ is_nsm(sp, d[j + 1])
    THEN IF j - i + 1 > sp.nsm_max THEN [err |-> NsmTooMany, j |-> j]
         ELSE IF \E k \in i..(j - 1) : d[k + 1] = d[j + 1] THEN [err |-> NsmRepeated, j |-> j]
         ELSE NsmInner(sp, d, i, j + 1)
    ELSE [err |-> NoError, j |-> j]

\* The outer while loop of check_group at i (0-based).
RECURSIVE NsmOuter(_, _, _)
NsmOuter(sp, d, i) ==
    IF i >= Len(d) THEN Ok
    ELSE IF is_nsm(sp, d[i + 1])
         THEN LET r == NsmInner(sp, d, i, i + 1)
              IN  IF r.err # NoError THEN Err(r.err) ELSE NsmOuter(sp, d, r.j + 1)
         ELSE NsmOuter(sp, d, i + 1)

\* Variant of check_group: the NSM scan made for the groups that list
\* combining marks.
check_group_cm_listed(group, cps, sp) ==
    LET absent == {i \in DOMAIN cps : ~contains_cp(group, cps[i])}
    IN  IF absent # {}
        THEN Err(Confused("not present in group",
                          <<cps[CHOOSE i \in absent : \A j \in absent : i <= j]>>, group.name))
        ELSE IF ~group.cm_absent THEN NsmOuter(sp, nfd_cps(cps, sp), 1)
        ELSE Ok

check_group(group, cps, sp) ==
    LET absent == {i \in DOMAIN cps : ~contains_cp(group, cps[i])}
    IN  IF absent # {}
        THEN Err(Confused("not present in group",
                          <<cps[CHOOSE i \in absent : \A j \in absent : i <= j]>>, group.name))
        ELSE IF group.cm_absent THEN NsmOuter(sp, nfd_cps(cps, sp), 1)
        ELSE Ok

\* The for loop of get_groups_candidates_and_shared_cps.
RECURSIVE WholeLoop(_, _, _, _)
WholeLoop(sp, unique_cps, maybe_groups, shared) ==
    IF unique_cps = <<>>
    THEN [maker |-> IF maybe_groups.some THEN maybe_groups.groups ELSE <<>>, shared |-> shared]
    ELSE LET cp == Head(unique_cps)
         IN  IF cp \notin DOMAIN sp.whole_map
             THEN WholeLoop(sp, Tail(unique_cps), maybe_groups, Append(shared, cp))
             ELSE IF sp.whole_map[cp].kind = "Number"
             THEN [maker |-> <<>>, shared |-> <<>>]
             ELSE LET confused_groups_names == sp.whole_map[cp].m
                  IN  WholeLoop(sp, Tail(unique_cps),
                          IF maybe_groups.some
                          THEN [some |-> TRUE,
                                groups |-> SelectSeq(maybe_groups.groups,
                                    LAMBDA g : g \in Range(confused_groups_names))]
                          ELSE [some |-> TRUE, groups |-> confused_groups_names],
                          shared)

\* Variant of the loop: a code point with a Number entry is passed over.
RECURSIVE WholeLoopNumberSkipped(_, _, _, _)
WholeLoopNumberSkipped(sp, unique_cps, maybe_groups, shared) ==
    IF unique_cps = <<>>
    THEN [maker |-> IF maybe_groups.some THEN maybe_groups.groups ELSE <<>>, shared |-> shared]
    ELSE LET cp == Head(unique_cps)
         IN  IF cp \notin DOMAIN sp.whole_map
             THEN WholeLoopNumberSkipped(sp, Tail(unique_cps), maybe_groups, Append(shared, cp))
             ELSE IF sp.whole_map[cp].kind = "Number"
             THEN WholeLoopNumberSkipped(sp, Tail(unique_cps), maybe_groups, shared)
             ELSE LET confused_groups_names == sp.whole_map[cp].m
                  IN  WholeLoopNumberSkipped(sp, Tail(unique_cps),
                          IF maybe_groups.some
                          THEN [some |-> TRUE,
                                groups |-> SelectSeq(maybe_groups.groups,
                                    LAMBDA g : g \in Range(confused_groups_names))]
                          ELSE [some |-> TRUE, groups |-> confused_groups_names],
                          shared)

get_groups_candidates_number_skipped(unique_cps, sp) ==
    WholeLoopNumberSkipped(sp, unique_cps, [some |-> FALSE, groups |-> <<>>], <<>>)

get_groups_candidates_and_shared_cps(unique_cps, sp) ==
    WholeLoop(sp, unique_cps, [some |-> FALSE, groups |-> <<>>], <<>>)

\* group_name_to_index: the last group of a name wins; no group is a panic.
group_by_name(sp, name) ==
    LET idx == {i \in DOMAIN sp.groups : sp.groups[i].name = name}
    IN  IF idx = {} THEN [found |-> FALSE, group |-> Head(sp.groups)]
        ELSE [found |-> TRUE, group |-> sp.groups[CHOOSE i \in idx : \A j \in idx : i >= j]]

\* Variant of check_whole: a candidate is not asked for the shared code points.
check_whole_without_shared(group, unique_cps, sp) ==
    LET ms == get_groups_candidates_and_shared_cps(unique_cps, sp)
        missing == {k \in DOMAIN ms.maker : ~group_by_name(sp, ms.maker[k]).found}
        hit == {k \in DOMAIN ms.maker : group_by_name(sp, ms.maker[k]).found}
        first(S) == CHOOSE k \in S : \A l \in S : k <= l
    IN  IF missing # {} /\ (hit = {} \/ first(missing) < first(hit)) THEN Err(Panic)
        ELSE IF hit # {}
        THEN Err(ConfusedGroups(group.name, group_by_name(sp, ms.maker[first(hit)]).group.name))
        ELSE Ok

check_whole(group, unique_cps, sp) ==
    LET ms == get_groups_candidates_and_shared_cps(unique_cps, sp)
        missing == {k \in DOMAIN ms.maker : ~group_by_name(sp, ms.maker[k]).found}
        hit == {k \in DOMAIN ms.maker :
                   group_by_name(sp, ms.maker[k]).found
                   /\ contains_all_cps(group_by_name(sp, ms.maker[k]).group, ms.shared)}
        first(S) == CHOOSE k \in S : \A l \in S : k <= l
    IN  IF missing # {} /\ (hit = {} \/ first(missing) < first(hit)) THEN Err(Panic)
        ELSE IF hit # {}
        THEN Err(ConfusedGroups(group.name, group_by_name(sp, ms.maker[first(hit)]).group.name))
        ELSE Ok

\* unique_cps is the iteration order of the HashSet the call builds.
check_and_get_group(label, sp, unique_cps) ==
    LET cps == get_cps_of_not_ignored_text(label)
        g == determine_group(unique_cps, sp)
    IN  IF ~g.ok THEN g
        ELSE IF ~check_group(g.group, cps, sp).ok
        THEN [ok |-> FALSE, err |-> check_group(g.group, cps, sp).err, group |-> g.group]
        ELSE IF ~check_whole(g.group, unique_cps, sp).ok
        THEN [ok |-> FALSE, err |-> check_whole(g.group, unique_cps, sp).err, group |-> g.group]
        ELSE g

ValidatedLabel(tokens, label_type) == [tokens |-> tokens, label_type |-> label_type]

NoLabel == ValidatedLabel(<<>>, "")

LabelOk(tokens, label_type) ==
    [ok |-> TRUE, err |-> NoError, label |-> ValidatedLabel(tokens, label_type)]

LabelErr(e) == [ok |-> FALSE, err |-> e, label |-> NoLabel]

\* Variant of validate_label: the combining-mark rule before the fenced rule.
validate_label_cm_before_fenced(label, sp, unique_cps) ==
    IF ~non_empty(label).ok THEN LabelErr(non_empty(label).err)
    ELSE IF ~check_token_types(label).ok THEN LabelErr(check_token_types(label).err)
    ELSE IF is_fully_emoji(label) THEN LabelOk(label, "Emoji")
    ELSE IF ~underscore_only_at_beginning(label).ok
    THEN LabelErr(underscore_only_at_beginning(label).err)
    ELSE IF is_fully_ascii(label)
    THEN IF ~no_hyphen_at_second_and_third(label).ok
         THEN LabelErr(no_hyphen_at_second_and_third(label).err)
         ELSE LabelOk(label, "ASCII")
    ELSE IF ~check_cm_leading_emoji(label, sp).ok
    THEN LabelErr(check_cm_leading_emoji(label, sp).err)
    ELSE IF ~check_fenced(label, sp).ok THEN LabelErr(check_fenced(label, sp).err)
    ELSE LET group == check_and_get_group(label, sp, unique_cps)
         IN  IF ~group.ok THEN LabelErr(group.err) ELSE LabelOk(label, group.group.name)

validate_label(label, sp, unique_cps) ==
    IF ~non_empty(label).ok THEN LabelErr(non_empty(label).err)
    ELSE IF ~check_token_types(label).ok THEN LabelErr(check_token_types(label).err)
    ELSE IF is_fully_emoji(label) THEN LabelOk(label, "Emoji")
    ELSE IF ~underscore_only_at_beginning(label).ok
    THEN LabelErr(underscore_only_at_beginning(label).err)
    ELSE IF is_fully_ascii(label)
    THEN IF ~no_hyphen_at_second_and_third(label).ok
         THEN LabelErr(no_hyphen_at_second_and_third(label).err)
         ELSE LabelOk(label, "ASCII")
    ELSE IF ~check_fenced(label, sp).ok THEN LabelErr(check_fenced(label, sp).err)
    ELSE IF ~check_cm_leading_emoji(label, sp).ok
    THEN LabelErr(check_cm_leading_emoji(label, sp).err)
    ELSE LET group == check_and_get_group(label, sp, unique_cps)
         IN  IF ~group.ok THEN LabelErr(group.err) ELSE LabelOk(label, group.group.name)

\* What validate_label can return: one outcome per iteration order of unique_cps.
ValidateLabelOutcomes(label, sp) ==
    {validate_label(label, sp, u) :
        u \in HashSetOrders(Range(get_cps_of_not_ignored_text(label)))}

\* Variant of CollectLabels: every label validated, the last error kept.
RECURSIVE CollectLabelsLastError(_, _)
CollectLabelsLastError(labels, sp) ==
    IF labels = <<>> THEN {[ok |-> TRUE, err |-> NoError, labels |-> <<>>]}
    ELSE UNION {{IF ~rest.ok THEN rest
                 ELSE IF ~r.ok THEN [ok |-> FALSE, err |-> r.err, labels |-> <<>>]
                 ELSE [ok |-> TRUE, err |-> NoError, labels |-> <<r.label>> \o rest.labels] :
                    rest \in CollectLabelsLastError(Tail(labels), sp)} :
                   r \in ValidateLabelOutcomes(Head(labels), sp)}

\* collect::<Result<Vec<_>, _>>() over the labels, left to right.
RECURSIVE CollectLabels(_, _)
CollectLabels(labels, sp) ==
    IF labels = <<>> THEN {[ok |-> TRUE, err |-> NoError, labels |-> <<>>]}
    ELSE UNION {IF ~r.ok THEN {[ok |-> FALSE, err |-> r.err, labels |-> <<>>]}
                ELSE {IF ~rest.ok THEN rest
                      ELSE [ok |-> TRUE, err |-> NoError, labels |-> <<r.label>> \o rest.labels] :
                         rest \in CollectLabels(Tail(labels), sp)} :
                   r \in ValidateLabelOutcomes(Head(labels), sp)}

validate_name(name, sp) ==
    IF name.tokens = <<>> THEN {[ok |-> TRUE, err |-> NoError, labels |-> <<>>]}
    ELSE CollectLabels(iter_labels(name), sp)

(***************************************************************************)
(* join.rs, beautify.rs                                                    *)
(***************************************************************************)
\* itertools::intersperse with the stop, flattened.
RECURSIVE join_cps(_)
join_cps(cps) ==
    IF cps = <<>> THEN <<>>
    ELSE IF Len(cps) = 1 THEN cps2str(Head(cps))
    ELSE cps2str(Head(cps) \o <<CP_STOP>>) \o join_cps(Tail(cps))

\* Variant of join_labels: an emoji emitted in its pretty form.
join_labels_pretty_emoji(labels) ==
    join_cps([l \in DOMAIN labels |->
        Flatten([i \in DOMAIN labels[l].tokens |->
            LET token == labels[l].tokens[i]
            IN  IF token.type \in {"Disallowed", "Ignored", "Stop"} THEN <<>>
                ELSE IF token.type = "Emoji" THEN token.emoji
                ELSE token.cps])])

join_labels(labels) ==
    join_cps([l \in DOMAIN labels |->
        Flatten([i \in DOMAIN labels[l].tokens |->
            LET token == labels[l].tokens[i]
            IN  IF token.type \in {"Disallowed", "Ignored", "Stop"} THEN <<>>
                ELSE IF token.type = "Emoji" THEN token.cps_no_fe0f
                ELSE token.cps])])

\* Variant of cps_replaced_greek: xi capitalized in Greek labels only.
cps_replaced_greek_inverted(cps, label_type) ==
    IF label_type = "Greek"
    THEN [i \in DOMAIN cps |-> IF cps[i] = CP_XI_SMALL THEN CP_XI_CAPITAL ELSE cps[i]]
    ELSE cps

cps_replaced_greek(cps, label_type) ==
    IF label_type # "Greek"
    THEN [i \in DOMAIN cps |-> IF cps[i] = CP_XI_SMALL THEN CP_XI_CAPITAL ELSE cps[i]]
    ELSE cps

beautify_labels(labels) ==
    join_cps([l \in DOMAIN labels |->
        Flatten([i \in DOMAIN labels[l].tokens |->
            LET token == labels[l].tokens[i]
            IN  IF token.type = "Emoji" THEN token.emoji
                ELSE IF is_text(token)
                THEN cps_replaced_greek(token_cps(token), labels[l].label_type)
                ELSE <<>>])])

(***************************************************************************)
(* normalizer.rs: the API of the engine.  A result is a record             *)
(* [ok, err, value]; the value of an Err is NoValue.                       *)
(***************************************************************************)
NoValue == <<>>

HasPanic(tokens) == \E i \in DOMAIN tokens : tokens[i] = TokenPanic

tokenize(inp, sp) == tokenize_name(inp, sp, TRUE)

process(inp, sp) ==
    LET tokenized == tokenize(inp, sp)
    IN  IF HasPanic(tokenized.tokens) THEN {[ok |-> FALSE, err |-> Panic, value |-> NoValue]}
        ELSE {IF r.ok
              THEN [ok |-> TRUE, err |-> NoError,
                    value |-> [labels |-> r.labels, tokenized |-> tokenized]]
              ELSE [ok |-> FALSE, err |-> r.err, value |-> NoValue] :
                 r \in validate_name(tokenized, sp)}

normalize(inp, sp) ==
    {IF r.ok THEN [ok |-> TRUE, err |-> NoError, value |-> join_labels(r.value.labels)] ELSE r :
        r \in process(inp, sp)}

beautify(inp, sp) ==
    {IF r.ok THEN [ok |-> TRUE, err |-> NoError, value |-> beautify_labels(r.value.labels)] ELSE r :
        r \in process(inp, sp)}

(***************************************************************************)
(* The state machine.  `specs` is the engine's tables, `input` the string  *)
(* of the call at hand, `op` and `result` the call made and what it        *)
(* returned, `prev` the call before it on the same engine.                 *)
(***************************************************************************)
NoCall == [op |-> "none", input |-> <<>>, result |-> [ok |-> FALSE, err |-> NoError, value |-> NoValue]]

\* A table whose whole_map names, for a code point, the group of the code
\* point itself: CodePointsSpecs::new accepts it.
SelfWholeSpecJson ==
    [DefaultSpecJson EXCEPT
        !.whole_map = (1072 :> [kind |-> "WholeObject", m |-> <<"Cyrillic">>])
                      @@ (945 :> [kind |-> "Number", m |-> <<>>])]

\* A table with three non-spacing marks, at most two of them in a row, and a
\* group that lists combining marks of its own.
NsmSpecJson ==
    [DefaultSpecJson EXCEPT
        !.cm = {771, 772, 776},
        !.nsm = {771, 772, 776},
        !.nsm_max = 2,
        !.nfc_check = {771, 772, 776},
        !.groups =
            << [name |-> "Latin",
                primary |-> {97, 107, 45, 95, 8217, 8260, 771, 772, 776, 227, 257},
                secondary |-> {958}, cm |-> {}],
               [name |-> "Greek", primary |-> {958, 945, 45, 95, 8217, 8260},
                secondary |-> {}, cm |-> {}],
               [name |-> "Cyrillic", primary |-> {1072, 45, 95, 8217, 8260, 771, 772, 776},
                secondary |-> {}, cm |-> {771}] >>]

DefaultSpecs == CodePointsSpecsNew(DefaultSpecJson, DefaultNfJson)

SelfWholeSpecs == CodePointsSpecsNew(SelfWholeSpecJson, DefaultNfJson)

NsmSpecs == CodePointsSpecsNew(NsmSpecJson, DefaultNfJson)

OverlapSpecs == CodePointsSpecsNew(OverlapSpecJson, DefaultNfJson)

ChainAlphabet == {46, 97, 173, 8217, 945, 8205}

TokenAlphabet == {46, 97, 65, 173, 65039, 32, 9794, 128692, 8205, 771}

ValidateAlphabet == {46, 97, 95, 173, 8217, 771, 9794, 32, 8205, 945}

AsciiAlphabet == {97, 45, 95, 173}

FencedAlphabet == {97, 8217, 8260, 173, 9794, 65039}

CmAlphabet == {97, 771, 772, 9794, 65039}

WholeAlphabet == {1072, 95, 173, 771, 8217, 9794}

TypeAlphabet == {46, 97, 65, 8490, 926, 173, 9794, 65039}

GroupAlphabet == {97, 958, 945, 1072, 45, 8217, 9794}

NsmAlphabet == {97, 1072, 771, 772, 776, 9794}

ConfusableAlphabet == {1072, 1073, 1074, 1086, 45, 9794}

MemberAlphabet == {97, 958, 1072, 771, 173, 9794}

IgnoredAlphabet == {97, 45, 95, 8217, 173, 9794}

EmitAlphabet == {46, 97, 65, 173, 958, 945, 9794, 65039, 771}

Start(sp, inputs) ==
    /\ specs \in sp
    /\ input \in inputs
    /\ op = "none"
    /\ pc = "idle"
    /\ result = NoCall.result
    /\ prev = NoCall
    /\ calls = 1

Init == Start({DefaultSpecs}, Strings(ChainAlphabet, MaxChainLen))

InitTokenize == Start({DefaultSpecs, OverlapSpecs}, Strings(TokenAlphabet, MaxLen))

InitProcess ==
    Start({DefaultSpecs},
          Strings(ValidateAlphabet, MaxLen) \cup Strings(AsciiAlphabet, MaxAsciiLen))

InitEmit == Start({DefaultSpecs}, Strings(EmitAlphabet, MaxLen))

InitFenced == Start({DefaultSpecs}, Strings(FencedAlphabet, MaxRuleLen))

InitCm == Start({DefaultSpecs}, Strings(CmAlphabet, MaxRuleLen))

InitWhole == Start({DefaultSpecs}, Strings(WholeAlphabet, MaxLen))

InitType == Start({DefaultSpecs}, Strings(TypeAlphabet, MaxLen))

InitGroup == Start({DefaultSpecs}, Strings(GroupAlphabet, MaxLen))

InitNsm == Start({NsmSpecs}, Strings(NsmAlphabet, MaxRuleLen))

InitConfusable ==
    Start({DefaultSpecs, SelfWholeSpecs}, Strings(ConfusableAlphabet, MaxLen))

InitMember ==
    Start({DefaultSpecs, NsmSpecs, SelfWholeSpecs}, Strings(MemberAlphabet, MaxLen))

InitIgnored == Start({DefaultSpecs}, Strings(IgnoredAlphabet, MaxLen))

Return(o, r) ==
    /\ op' = o
    /\ result' = r
    /\ pc' = "done"
    /\ UNCHANGED <<specs, input, prev, calls>>

\* EnsNameNormalizer::tokenize
Tokenize ==
    /\ pc = "idle"
    /\ Return("tokenize", [ok |-> TRUE, err |-> NoError, value |-> tokenize(input, specs)])

\* TokenizedName::from_input(input, specs, false)
FromInputWithoutNfc ==
    /\ pc = "idle"
    /\ Return("from_input", [ok |-> TRUE, err |-> NoError,
                             value |-> tokenize_name(input, specs, FALSE)])

\* EnsNameNormalizer::process
Process ==
    /\ pc = "idle"
    /\ \E r \in process(input, specs) : Return("process", r)

\* EnsNameNormalizer::normalize
Normalize ==
    /\ pc = "idle"
    /\ \E r \in normalize(input, specs) : Return("normalize", r)

\* EnsNameNormalizer::beautify
Beautify ==
    /\ pc = "idle"
    /\ \E r \in beautify(input, specs) : Return("beautify", r)

\* The caller makes another call with the same input on the same engine.
Repeat ==
    /\ pc = "done"
    /\ calls < MaxCalls
    /\ prev' = [op |-> op, input |-> input, result |-> result]
    /\ pc' = "idle"
    /\ calls' = calls + 1
    /\ UNCHANGED <<specs, input, op, result>>

\* The caller feeds the string a call returned back into the engine.
Resubmit ==
    /\ pc = "done"
    /\ calls < MaxCalls
    /\ op \in {"normalize", "beautify"}
    /\ result.ok
    /\ input' = result.value
    /\ prev' = [op |-> op, input |-> input, result |-> result]
    /\ pc' = "idle"
    /\ calls' = calls + 1
    /\ UNCHANGED <<specs, op, result>>

\* The input code points a token stands for.
TokenInput(t) ==
    CASE t.type = "Valid" -> t.cps
      [] t.type = "Emoji" -> t.cps_input
      [] t.type = "Nfc" -> t.input
      [] t.type \in {"Mapped", "Ignored", "Disallowed", "Stop"} -> <<t.cp>>
      [] OTHER -> <<>>

\* The emoji sequences an input can hold: the listed forms and the same
\* sequences without U+FE0F, both of which the emoji regex matches.
EmojiInputs(sp) == Range(sp.emoji_regex) \cup DOMAIN sp.emoji_no_fe0f_to_pretty

\* The input offset of the boundary behind the first p tokens.
BoundaryOffset(tokens, p) == SumSeq([i \in 1..p |-> Len(TokenInput(tokens[i]))])

InsertAt(str, offset, cps) ==
    Slice(str, 1, offset) \o cps \o Slice(str, offset + 1, Len(str))

\* The caller adds an emoji sequence at a token boundary of the first input
\* and calls the engine again.
AddEmoji ==
    /\ pc = "done"
    /\ prev = NoCall
    /\ op = "process"
    /\ LET tokens == tokenize(input, specs).tokens
       IN  \E p \in 0..Len(tokens), e \in EmojiInputs(specs) :
               input' = InsertAt(input, BoundaryOffset(tokens, p), e)
    /\ prev' = [op |-> op, input |-> input, result |-> result]
    /\ pc' = "idle"
    /\ calls' = calls + 1
    /\ UNCHANGED <<specs, op, result>>

\* The code points that tokenize to an Ignored token wherever they stand:
\* ignored, not valid, and no part of an emoji pattern.
IgnoredInputs(sp) ==
    {cp \in sp.ignored :
        ~is_valid(sp, cp) /\ \A e \in Range(sp.emoji_regex) : cp \notin Range(e)}

\* The caller adds an Ignored code point at a token boundary of the first
\* input and makes the same kind of call again.
AddIgnored ==
    /\ pc = "done"
    /\ prev = NoCall
    /\ op \in {"process", "normalize"}
    /\ LET tokens == tokenize(input, specs).tokens
       IN  \E p \in 0..Len(tokens), cp \in IgnoredInputs(specs) :
               input' = InsertAt(input, BoundaryOffset(tokens, p), <<cp>>)
    /\ prev' = [op |-> op, input |-> input, result |-> result]
    /\ pc' = "idle"
    /\ calls' = calls + 1
    /\ UNCHANGED <<specs, op, result>>

Next == Tokenize \/ Process \/ Normalize \/ Beautify \/ Repeat \/ Resubmit

NextTokenize == Tokenize \/ FromInputWithoutNfc

NextProcess == Process \/ Normalize \/ Beautify

NextWhole == Process \/ AddEmoji

NextIgnored == Process \/ Normalize \/ AddIgnored

Spec == Init /\ [][Next]_vars

SpecTokenize == InitTokenize /\ [][NextTokenize]_vars

SpecProcess == InitProcess /\ [][NextProcess]_vars

SpecEmit == InitEmit /\ [][NextProcess]_vars

SpecFenced == InitFenced /\ [][NextProcess]_vars

SpecCm == InitCm /\ [][NextProcess]_vars

SpecType == InitType /\ [][NextProcess]_vars

SpecGroup == InitGroup /\ [][NextProcess]_vars

SpecNsm == InitNsm /\ [][NextProcess]_vars

SpecConfusable == InitConfusable /\ [][NextProcess]_vars

SpecMember == InitMember /\ [][NextProcess]_vars

SpecIgnored == InitIgnored /\ [][NextIgnored]_vars

SpecWhole == InitWhole /\ [][NextWhole]_vars

(***************************************************************************)
(* Vocabulary of the properties.                                           *)
(***************************************************************************)
Done(ops) == pc = "done" /\ op \in ops

\* The labels of the call's input and the leftmost one that validation rejects.
LabelsOfInput == iter_labels(tokenize(input, specs))

LabelFails(label) == \E r \in ValidateLabelOutcomes(label, specs) : ~r.ok

FailingLabels(labels) == {k \in DOMAIN labels : LabelFails(labels[k])}

LeftmostFailing(failing) == CHOOSE k \in failing : \A l \in failing : k <= l

TokenTypes(tokens) == {tokens[i].type : i \in DOMAIN tokens}

SumInputSize(tokens) == SumSeq([i \in DOMAIN tokens |-> input_size(tokens[i])])

(***************************************************************************)
(* C1  normalize is idempotent: when normalize(x) succeeds with y, the     *)
(* call normalize(y) succeeds and returns y.                               *)
(***************************************************************************)
C1_NormalizeIdempotent ==
    (/\ Done({"normalize"})
     /\ prev.op = "normalize"
     /\ prev.result.ok
     /\ input = prev.result.value)
        => (result.ok /\ result.value = prev.result.value)

(***************************************************************************)
(* C2  tokenize preserves the code-point count: the input sizes of the     *)
(* tokens of tokenize(x) (NFC applied) add up to the length of x.          *)
(***************************************************************************)
C2_InputSizePreserved ==
    Done({"tokenize"}) => SumInputSize(result.value.tokens) = Len(input)

\* C2 as amended: the input sizes add up to the length of x whenever the
\* token sequence holds no Nfc token (with or without NFC applied).
C2_InputSizePreservedWithoutNfcToken ==
    (Done({"tokenize", "from_input"}) /\ "Nfc" \notin TokenTypes(result.value.tokens))
        => SumInputSize(result.value.tokens) = Len(input)

C2_Witness ==
    /\ Done({"tokenize"})
    /\ {"Emoji", "Mapped"} \subseteq TokenTypes(result.value.tokens)
    /\ \E i \in DOMAIN result.value.tokens :
          /\ result.value.tokens[i].type = "Emoji"
          /\ Len(result.value.tokens[i].cps_input) > Len(result.value.tokens[i].cps_no_fe0f)
    /\ SumInputSize(result.value.tokens) = Len(input)

(***************************************************************************)
(* C3  when beautify(x) succeeds, normalize(beautify(x)) succeeds and      *)
(* equals normalize(x).                                                    *)
(***************************************************************************)
C3_NormalizeOfBeautify ==
    (/\ Done({"normalize"})
     /\ prev.op = "beautify"
     /\ prev.result.ok
     /\ input = prev.result.value)
        => (result.ok /\ result \in normalize(prev.input, specs))

(***************************************************************************)
(* C4  the engine is deterministic and history-independent: a call with    *)
(* the same input as the call before it on the same engine returns an      *)
(* equal result (value, or error with its payload), and no call changes    *)
(* the tables.                                                             *)
(***************************************************************************)
C4_Deterministic ==
    /\ specs = DefaultSpecs
    /\ (Done({"tokenize", "process", "normalize", "beautify"})
        /\ prev.op = op /\ prev.input = input)
           => result = prev.result

(***************************************************************************)
(* C5  tokenize is total: it returns (no error, no panic) a token sequence *)
(* that covers the input in order; every token that is no emoji stands for *)
(* code points of the class its type names, the class being chosen by the  *)
(* precedence Stop, Valid, Ignored, Mapped, Disallowed; NFC changes none   *)
(* of the Stop, Disallowed and Emoji tokens.                               *)
(***************************************************************************)
PrecedenceClass(sp, cp) ==
    IF cp = CP_STOP THEN "Stop"
    ELSE IF cp \in sp.valid THEN "Valid"
    ELSE IF cp \in sp.ignored THEN "Ignored"
    ELSE IF cp \in DOMAIN sp.mapped THEN "Mapped"
    ELSE "Disallowed"

ClassifiedByPrecedence(t) ==
    CASE t.type = "Emoji" -> TRUE
      [] t.type = "Valid" ->
            t.cps # <<>> /\ \A k \in DOMAIN t.cps : PrecedenceClass(specs, t.cps[k]) = "Valid"
      [] t.type = "Mapped" ->
            PrecedenceClass(specs, t.cp) = "Mapped" /\ t.cps = specs.mapped[t.cp]
      [] t.type \in {"Stop", "Ignored", "Disallowed"} -> PrecedenceClass(specs, t.cp) = t.type
      [] OTHER -> FALSE

KeepTypes(tokens, types) == SelectSeq(tokens, LAMBDA t : t.type \in types)

C5_TokenizeTotal ==
    /\ Done({"from_input"}) =>
          /\ result.ok
          /\ Flatten([i \in DOMAIN result.value.tokens |-> TokenInput(result.value.tokens[i])])
                = input
          /\ \A i \in DOMAIN result.value.tokens :
                ClassifiedByPrecedence(result.value.tokens[i])
    /\ Done({"tokenize"}) =>
          /\ result.ok
          /\ \A i \in DOMAIN result.value.tokens :
                result.value.tokens[i].type = "Nfc"
                    \/ ClassifiedByPrecedence(result.value.tokens[i])
          /\ KeepTypes(result.value.tokens, {"Stop", "Disallowed", "Emoji"})
                = KeepTypes(tokenize_name(input, specs, FALSE).tokens,
                            {"Stop", "Disallowed", "Emoji"})

\* A forbidden code point next to an emoji, a stop and text: all are tokens.
C5_Witness ==
    /\ Done({"tokenize"})
    /\ result.ok
    /\ {"Disallowed", "Emoji"} \subseteq TokenTypes(result.value.tokens)
    /\ Len(input) = 3
    /\ Len(result.value.tokens) = 2

(***************************************************************************)
(* C6  validate_label applies its rules in the order non-empty, no         *)
(* Disallowed token, underscore placement, hyphen placement (all-ASCII     *)
(* labels only), fenced placement, combining-mark placement, group         *)
(* determination with the group's checks; the first rule that fails gives  *)
(* the error; a label of emoji tokens only is accepted as Emoji after the  *)
(* second rule and an all-ASCII label as ASCII after the hyphen rule.      *)
(***************************************************************************)
\* The outcomes the claimed order allows for one label.
ClaimedOrder(label, sp) ==
    LET r1 == non_empty(label)
        r2 == check_token_types(label)
        r3 == underscore_only_at_beginning(label)
        r4 == no_hyphen_at_second_and_third(label)
        r5 == check_fenced(label, sp)
        r6 == check_cm_leading_emoji(label, sp)
        r7 == {check_and_get_group(label, sp, u) :
                   u \in HashSetOrders(Range(get_cps_of_not_ignored_text(label)))}
        accepted(t) == {[ok |-> TRUE, type |-> t]}
        rejected(r) == {[ok |-> FALSE, err |-> r.err]}
    IN  IF ~r1.ok THEN rejected(r1)
        ELSE IF ~r2.ok THEN rejected(r2)
        ELSE IF \A i \in DOMAIN label : label[i].type = "Emoji" THEN accepted("Emoji")
        ELSE IF ~r3.ok THEN rejected(r3)
        ELSE IF \A i \in DOMAIN label : \A k \in DOMAIN token_cps(label[i]) :
                    token_cps(label[i])[k] <= LAST_ASCII_CP
             THEN (IF ~r4.ok THEN rejected(r4) ELSE accepted("ASCII"))
        ELSE IF ~r5.ok THEN rejected(r5)
        ELSE IF ~r6.ok THEN rejected(r6)
        ELSE {IF g.ok THEN [ok |-> TRUE, type |-> g.group.name] ELSE [ok |-> FALSE, err |-> g.err]
                 : g \in r7}

C6_RuleOrder ==
    (Done({"process", "normalize", "beautify"}) /\ tokenize(input, specs).tokens # <<>>) =>
        LET labels == LabelsOfInput
            failing == FailingLabels(labels)
        IN  IF failing = {}
            THEN /\ result.ok
                 /\ op = "process" =>
                       \A k \in DOMAIN result.value.labels :
                           [ok |-> TRUE, type |-> result.value.labels[k].label_type]
                               \in ClaimedOrder(labels[k], specs)
            ELSE /\ ~result.ok
                 /\ [ok |-> FALSE, err |-> result.err]
                        \in ClaimedOrder(labels[LeftmostFailing(failing)], specs)

\* A label that breaks the fenced rule and the combining-mark rule: the
\* fenced rule, being earlier, gives the error.
C6_Witness ==
    /\ Done({"process"})
    /\ ~result.ok
    /\ result.err.kind = "CurrableError"
    /\ result.err.inner \in {"FencedLeading", "FencedTrailing", "FencedConsecutive"}
    /\ LET labels == LabelsOfInput
       IN  Len(labels) = 1 /\ ~check_cm_leading_emoji(labels[1], specs).ok

(***************************************************************************)
(* C7  a name with several invalid labels fails with the error of its      *)
(* leftmost invalid label, the error's index being relative to that label; *)
(* the labels after it play no part.                                       *)
(***************************************************************************)
C7_LeftmostLabelError ==
    Done({"process", "normalize", "beautify"}) =>
        LET labels == LabelsOfInput
            failing == FailingLabels(labels)
        IN  (Len(labels) > 1 /\ failing # {}) =>
                /\ ~result.ok
                /\ \E r \in ValidateLabelOutcomes(labels[LeftmostFailing(failing)], specs) :
                      ~r.ok /\ r.err = result.err

\* Two invalid labels with different errors; the second would fail at its
\* own index 0.
C7_Witness ==
    /\ Done({"normalize"})
    /\ ~result.ok
    /\ result.err.kind = "CurrableError"
    /\ result.err.index = 1
    /\ LET labels == LabelsOfInput
           failing == FailingLabels(labels)
       IN  /\ Cardinality(failing) = 2
           /\ 1 \in failing
           /\ \A k \in failing \ {1} :
                 \A r \in ValidateLabelOutcomes(labels[k], specs) : r.err # result.err

(***************************************************************************)
(* C8  normalize fails with EmptyLabel for every name that has a label     *)
(* with no token other than Ignored ones (the empty string, a leading,     *)
(* trailing or doubled stop, a label of ignored code points only), that    *)
(* label being the leftmost invalid one.                                   *)
(***************************************************************************)
IgnoredOnly(label) == \A i \in DOMAIN label : label[i].type = "Ignored"

C8_EmptyLabelRejected ==
    Done({"normalize"}) =>
        LET labels == LabelsOfInput
        IN  (\E k \in DOMAIN labels :
                /\ IgnoredOnly(labels[k])
                /\ \A l \in 1..(k - 1) : ~LabelFails(labels[l]))
               => (~result.ok /\ result.err = EmptyLabel)

(***************************************************************************)
(* C9  a name whose leftmost invalid label is non-empty and holds a        *)
(* Disallowed token fails with Invalid carrying the code point of the      *)
(* first Disallowed token of that label, whatever other rules the label    *)
(* breaks.                                                                 *)
(***************************************************************************)
DisallowedIn(label) == SelectSeq(label, LAMBDA t : t.type = "Disallowed")

\* The leftmost invalid label, or the empty label when every label is valid.
LeftmostFailingLabel ==
    LET labels == LabelsOfInput
        failing == FailingLabels(labels)
    IN  IF failing = {} THEN <<>> ELSE labels[LeftmostFailing(failing)]

C10_ZwjIsInvisibleCharacter ==
    Done({"normalize"}) =>
        LET bad == DisallowedIn(LeftmostFailingLabel)
        IN  (bad # <<>> /\ Head(bad).cp = 8205)
               => (~result.ok /\ result.err = InvisibleCharacter(8205))

(***************************************************************************)
(* C11  on success the normalized string is, token by token in input       *)
(* order, the cps of every Valid, Mapped and Nfc token and the cps_no_fe0f *)
(* of every Emoji token; Ignored tokens give nothing and every Stop token  *)
(* (the boundary of two labels) gives exactly one U+002E.                  *)
(***************************************************************************)
NormalizedPart(t) ==
    CASE t.type \in {"Valid", "Mapped", "Nfc"} -> t.cps
      [] t.type = "Emoji" -> t.cps_no_fe0f
      [] t.type = "Stop" -> <<CP_STOP>>
      [] OTHER -> <<>>

C11_NormalizedOutput ==
    (Done({"normalize"}) /\ result.ok) =>
        LET tokens == tokenize(input, specs).tokens
        IN  result.value = Flatten([i \in DOMAIN tokens |-> NormalizedPart(tokens[i])])

\* Two labels, with a stop between a mapped letter or an emoji and the rest.
C11_Witness ==
    /\ Done({"normalize"})
    /\ result.ok
    /\ result.value # input
    /\ LET tokens == tokenize(input, specs).tokens
       IN  "Stop" \in TokenTypes(tokens) /\ TokenTypes(tokens) \cap {"Mapped", "Emoji"} # {}

(***************************************************************************)
(* C12  the beautified string is the normalized one except that every      *)
(* Emoji token gives its pretty form `emoji` and, in a label whose type is *)
(* not Greek, every U+03BE of a text token becomes U+039E; in a label of   *)
(* type Greek U+03BE is kept.                                              *)
(***************************************************************************)
XiCapitalized(cps) ==
    [i \in DOMAIN cps |-> IF cps[i] = CP_XI_SMALL THEN CP_XI_CAPITAL ELSE cps[i]]

BeautifiedPart(t, label_type) ==
    CASE t.type = "Emoji" -> t.emoji
      [] t.type \in {"Valid", "Mapped", "Nfc"} ->
            IF label_type = "Greek" THEN t.cps ELSE XiCapitalized(t.cps)
      [] OTHER -> NormalizedPart(t)

\* The label types that validation gives the labels of the input, by label.
LabelTypesOfInput ==
    LET labels == LabelsOfInput
    IN  [k \in DOMAIN labels |->
            {r.label.label_type : r \in ValidateLabelOutcomes(labels[k], specs)}]

\* The number of the label a token position belongs to.
LabelOfPosition(tokens, i) ==
    1 + Cardinality({j \in 1..(i - 1) : tokens[j].type = "Stop"})

C12_BeautifiedOutput ==
    (Done({"beautify"}) /\ result.ok) =>
        LET tokens == tokenize(input, specs).tokens
            types == LabelTypesOfInput
        IN  /\ \A k \in DOMAIN types : Cardinality(types[k]) = 1
            /\ result.value =
                  Flatten([i \in DOMAIN tokens |->
                      BeautifiedPart(tokens[i],
                          CHOOSE t \in types[LabelOfPosition(tokens, i)] : TRUE)])

\* Outside Greek labels xi is capitalized and an emoji regains its FE0F.
C12_Witness ==
    /\ Done({"beautify"})
    /\ result.ok
    /\ CP_XI_CAPITAL \in Range(result.value)
    /\ CP_FE0F \in Range(result.value)
    /\ CP_FE0F \notin Range(input)

(***************************************************************************)
(* Vocabulary of the placement rules.  The code-point sequence S of a      *)
(* label is its tokens expanded to their code points, an emoji giving its  *)
(* cps_no_fe0f and an Ignored token its code point.                        *)
(***************************************************************************)
S(label) ==
    Flatten([i \in DOMAIN label |->
        CASE label[i].type = "Emoji" -> label[i].cps_no_fe0f
          [] label[i].type \in {"Valid", "Mapped", "Nfc"} -> label[i].cps
          [] OTHER -> <<label[i].cp>>])

\* The labels validation reaches: all of them, or those up to the leftmost
\* invalid one.
ReachedLabels(labels, failing) ==
    IF failing = {} THEN DOMAIN labels ELSE 1..LeftmostFailing(failing)

\* The error of label k, if the call failed at label k.
FailsAt(k, failing) == failing # {} /\ k = LeftmostFailing(failing)

AllEmoji(label) == \A i \in DOMAIN label : label[i].type = "Emoji"

\* The label gets past the non-empty and the token rule and is not all-emoji.
ReachesUnderscoreRule(label) ==
    ~IgnoredOnly(label) /\ DisallowedIn(label) = <<>> /\ ~AllEmoji(label)

\* 0-indexed positions of the underscores of s that follow another code point.
UnderscoresInMiddle(s) ==
    {i \in 0..(Len(s) - 1) :
        s[i + 1] = CP_UNDERSCORE /\ \E j \in 1..i : s[j] # CP_UNDERSCORE}

Minimum(ns) == CHOOSE n \in ns : \A m \in ns : n <= m

(***************************************************************************)
(* C13  underscore rule: a label that reaches the rule (non-empty, no      *)
(* Disallowed token, not all-emoji) passes it when all the underscores of  *)
(* its code-point sequence are leading; otherwise the name fails with      *)
(* UnderscoreInMiddle, index the position in the sequence of the first     *)
(* underscore after the leading ones, sequence "_" and suggestion "".      *)
(***************************************************************************)
C13_UnderscoreRule ==
    Done({"process", "normalize", "beautify"}) =>
        LET labels == LabelsOfInput
            failing == FailingLabels(labels)
        IN  \A k \in ReachedLabels(labels, failing) :
                ReachesUnderscoreRule(labels[k]) =>
                    LET middle == UnderscoresInMiddle(S(labels[k]))
                    IN  IF middle # {}
                        THEN /\ FailsAt(k, failing)
                             /\ result.err = CurrableError("UnderscoreInMiddle", Minimum(middle),
                                                           <<CP_UNDERSCORE>>, <<>>)
                        ELSE ~(/\ FailsAt(k, failing)
                               /\ result.err.kind = "CurrableError"
                               /\ result.err.inner = "UnderscoreInMiddle")

\* Leading underscores, then a letter, then two more underscores.
C13_Witness ==
    /\ Done({"normalize"})
    /\ ~result.ok
    /\ result.err.kind = "CurrableError"
    /\ result.err.inner = "UnderscoreInMiddle"
    /\ result.err.index = 2
    /\ Head(input) = CP_UNDERSCORE

(***************************************************************************)
(* C14  hyphen rule: a label that gets past the underscore rule and whose  *)
(* code points are all <= U+007F fails with HyphenAtSecondAndThird         *)
(* (index 2, sequence "--", suggestion "") exactly when its code points at *)
(* 0-indexed positions 2 and 3 are both U+002D, and otherwise is accepted  *)
(* with label type ASCII.                                                  *)
(***************************************************************************)
C14_HyphenRule ==
    Done({"process", "normalize", "beautify"}) =>
        LET labels == LabelsOfInput
            failing == FailingLabels(labels)
        IN  \A k \in ReachedLabels(labels, failing) :
                LET s == S(labels[k])
                IN  (/\ ReachesUnderscoreRule(labels[k])
                     /\ UnderscoresInMiddle(s) = {}
                     /\ \A i \in DOMAIN s : s[i] <= 127) =>
                        IF Len(s) >= 4 /\ s[3] = CP_HYPHEN /\ s[4] = CP_HYPHEN
                        THEN /\ FailsAt(k, failing)
                             /\ result.err = CurrableError("HyphenAtSecondAndThird", 2,
                                                           <<CP_HYPHEN, CP_HYPHEN>>, <<>>)
                        ELSE /\ ~FailsAt(k, failing)
                             /\ (op = "process" /\ result.ok) =>
                                    result.value.labels[k].label_type = "ASCII"

\* A leading underscore, then hyphens at positions 2 and 3.
C14_Witness ==
    /\ Done({"process"})
    /\ ~result.ok
    /\ result.err.kind = "CurrableError"
    /\ result.err.inner = "HyphenAtSecondAndThird"
    /\ Len(input) = 4
    /\ Head(input) = CP_UNDERSCORE

(***************************************************************************)
(* C15  fenced rule, for a label that reaches it (past the underscore      *)
(* rule, not all-ASCII), on its code-point sequence S: a fenced S[0] gives *)
(* FencedLeading at index 0; otherwise a fenced last code point gives      *)
(* FencedTrailing at index |S|-1; otherwise the first adjacent pair of     *)
(* fenced code points gives FencedConsecutive at the pair's index, with    *)
(* the pair as sequence and its first code point as suggestion; otherwise  *)
(* the label passes the rule.                                              *)
(***************************************************************************)
ReachesFencedRule(label) ==
    /\ ReachesUnderscoreRule(label)
    /\ UnderscoresInMiddle(S(label)) = {}
    /\ \E i \in DOMAIN S(label) : S(label)[i] > 127

FencedPairs(s) ==
    {i \in 0..(Len(s) - 2) : s[i + 1] \in specs.fenced /\ s[i + 2] \in specs.fenced}

C15_FencedRule ==
    Done({"process", "normalize", "beautify"}) =>
        LET labels == LabelsOfInput
            failing == FailingLabels(labels)
        IN  \A k \in ReachedLabels(labels, failing) :
                ReachesFencedRule(labels[k]) =>
                    LET s == S(labels[k])
                        pairs == FencedPairs(s)
                    IN  IF s[1] \in specs.fenced
                        THEN /\ FailsAt(k, failing)
                             /\ result.err = CurrableError("FencedLeading", 0, <<s[1]>>, <<>>)
                        ELSE IF s[Len(s)] \in specs.fenced
                        THEN /\ FailsAt(k, failing)
                             /\ result.err = CurrableError("FencedTrailing", Len(s) - 1,
                                                           <<s[Len(s)]>>, <<>>)
                        ELSE IF pairs # {}
                        THEN /\ FailsAt(k, failing)
                             /\ result.err =
                                   CurrableError("FencedConsecutive", Minimum(pairs),
                                       <<s[Minimum(pairs) + 1], s[Minimum(pairs) + 2]>>,
                                       <<s[Minimum(pairs) + 1]>>)
                        ELSE ~(/\ FailsAt(k, failing)
                               /\ result.err.kind = "CurrableError"
                               /\ result.err.inner \in
                                     {"FencedLeading", "FencedTrailing", "FencedConsecutive"})

\* Two different fenced code points side by side inside a label.
C15_Witness ==
    /\ Done({"normalize"})
    /\ ~result.ok
    /\ result.err.kind = "CurrableError"
    /\ result.err.inner = "FencedConsecutive"
    /\ result.err.sequence[1] # result.err.sequence[2]
    /\ result.err.maybe_suggest = <<result.err.sequence[1]>>

(***************************************************************************)
(* C16  combining-mark rule, for a label that reaches it (past the fenced  *)
(* rule): if the first segment of the collapsed label is a Text segment    *)
(* that starts with a cm code point the name fails with CmStart at index   *)
(* 0; if a Text segment that follows an Emoji segment starts with a cm     *)
(* code point the name fails with CmAfterEmoji, index the position of that *)
(* combining mark in the label's input.                                    *)
(***************************************************************************)
\* The input of label k: the k-th piece of the input string between stops.
RECURSIVE InputOfLabel(_, _)
InputOfLabel(str, k) ==
    LET stops == {i \in DOMAIN str : str[i] = CP_STOP}
    IN  IF stops = {} THEN str
        ELSE IF k = 1 THEN SubSeq(str, 1, Minimum(stops) - 1)
        ELSE InputOfLabel(SubSeq(str, Minimum(stops) + 1, Len(str)), k - 1)

ReachesCmRule(label) ==
    /\ ReachesFencedRule(label)
    /\ S(label)[1] \notin specs.fenced
    /\ S(label)[Len(S(label))] \notin specs.fenced
    /\ FencedPairs(S(label)) = {}

\* The token types of a token sequence, Ignored tokens left out.
KindsWithoutIgnored(tokens) ==
    LET kept == SelectSeq(tokens, LAMBDA t : t.type # "Ignored")
    IN  [i \in DOMAIN kept |-> kept[i].type]

\* 0-indexed positions in the label's input of the combining marks that
\* directly follow an emoji (Ignored code points aside).
CmAfterEmojiOffsets(inp) ==
    {p \in 1..(Len(inp) - 1) :
        /\ inp[p + 1] \in specs.cm
        /\ LET kinds == KindsWithoutIgnored(tokenize(SubSeq(inp, 1, p), specs).tokens)
           IN  kinds # <<>> /\ kinds[Len(kinds)] = "Emoji"}

\* The first text code point of the label, when no emoji comes before it.
LeadingTextCp(label) ==
    LET kept == SelectSeq(label, LAMBDA t : t.type # "Ignored")
    IN  IF kept # <<>> /\ Head(kept).type \in {"Valid", "Mapped", "Nfc"}
        THEN <<Head(kept).cps[1]>> ELSE <<>>

C16_CmRule ==
    Done({"process", "normalize", "beautify"}) =>
        LET labels == LabelsOfInput
            failing == FailingLabels(labels)
        IN  \A k \in ReachedLabels(labels, failing) :
                ReachesCmRule(labels[k]) =>
                    LET lead == LeadingTextCp(labels[k])
                        offsets == CmAfterEmojiOffsets(InputOfLabel(input, k))
                    IN  IF lead # <<>> /\ lead[1] \in specs.cm
                        THEN /\ FailsAt(k, failing)
                             /\ result.err = CurrableError("CmStart", 0, lead, <<>>)
                        ELSE offsets # {} =>
                             /\ FailsAt(k, failing)
                             /\ result.err.kind = "CurrableError"
                             /\ result.err.inner = "CmAfterEmoji"
                             /\ result.err.index = Minimum(offsets)

(***************************************************************************)
(* Whole-script confusables and added emoji.                               *)
(***************************************************************************)
\* The call before this one failed with ConfusedGroups.
PrevConfusedGroups ==
    /\ prev # NoCall
    /\ prev.op = "process"
    /\ ~prev.result.ok
    /\ prev.result.err.kind = "ConfusedGroups"

\* An emoji placed behind the first p tokens leaves rules 1 to 7 passed: no
\* underscore follows it, and the text it now precedes (Ignored tokens
\* aside) does not start with a combining mark.
KeepsEarlierRules(tokens, p) ==
    LET rest == Slice(tokens, p + 1, Len(tokens))
        shown == SelectSeq(rest, LAMBDA t : t.type # "Ignored")
    IN  /\ \A j \in DOMAIN rest : CP_UNDERSCORE \notin Range(token_cps(rest[j]))
        /\ (shown # <<>> /\ shown[1].type \in {"Valid", "Mapped", "Nfc"}
                /\ token_cps(shown[1]) # <<>>)
               => token_cps(shown[1])[1] \notin specs.cm

C18_LabelTypes ==
    (Done({"process"}) /\ result.ok) =>
        \A k \in DOMAIN result.value.labels :
            LET label == result.value.labels[k]
            IN  /\ label.label_type = "ASCII" =>
                    \A i \in DOMAIN label.tokens :
                        \A cp \in Range(token_cps(label.tokens[i])) : cp <= LAST_ASCII_CP
                /\ label.label_type = "Emoji" =>
                    /\ label.tokens # <<>>
                    /\ \A i \in DOMAIN label.tokens : label.tokens[i].type = "Emoji"

C18_Witness ==
    /\ Done({"process"})
    /\ result.ok
    /\ \E k \in DOMAIN result.value.labels :
           /\ result.value.labels[k].label_type = "ASCII"
           /\ \E i \in DOMAIN result.value.labels[k].tokens :
                  /\ result.value.labels[k].tokens[i].type = "Mapped"
                  /\ result.value.labels[k].tokens[i].cp > LAST_ASCII_CP
    /\ \E k \in DOMAIN result.value.labels :
           /\ result.value.labels[k].label_type = "Emoji"
           /\ result.value.labels[k].tokens # <<>>

(***************************************************************************)
(* Coalescing of Valid tokens.                                             *)
(***************************************************************************)
\* The tokens collapse_valid_tokens is handed by tokenize_input.
TokensBeforeCollapse(inp, sp, apply_nfc) ==
    LET tokens == TokenizeLoop(sp, inp, finditer_emoji(sp, inp), 1)
    IN  IF apply_nfc THEN perform_nfc_transform(tokens, sp) ELSE tokens

\* A token sequence with every Valid token split into its code points and
\* every other token kept whole.
Unrolled(tokens) ==
    Flatten([i \in DOMAIN tokens |->
        IF tokens[i].type = "Valid"
        THEN [k \in DOMAIN tokens[i].cps |-> [valid |-> TRUE, cp |-> tokens[i].cps[k]]]
        ELSE <<[valid |-> FALSE, token |-> tokens[i]]>>])

AdjacentValid(tokens) ==
    {i \in 1..(Len(tokens) - 1) : tokens[i].type = "Valid" /\ tokens[i + 1].type = "Valid"}

\* C19: the tokenizer output never contains two adjacent Valid tokens; each
\* maximal run of consecutive Valid tokens is replaced by one Valid token
\* whose cps are the run's cps concatenated in order, and every Mapped, Nfc,
\* Emoji, Ignored, Disallowed and Stop token is left unchanged and in its
\* relative position.
C19_ValidCoalesced ==
    Done({"tokenize", "from_input"}) =>
        LET before == TokensBeforeCollapse(input, specs, op = "tokenize")
            after == result.value.tokens
        IN  /\ AdjacentValid(after) = {}
            /\ \A i \in DOMAIN after : after[i].type = "Valid" => after[i].cps # <<>>
            /\ Unrolled(after) = Unrolled(before)

C19_Witness ==
    /\ Done({"tokenize", "from_input"})
    /\ LET before == TokensBeforeCollapse(input, specs, op = "tokenize")
       IN  /\ AdjacentValid(before) # {}
           /\ \E i \in DOMAIN before : before[i].type # "Valid"
           /\ Len(result.value.tokens) < Len(before)
    /\ AdjacentValid(result.value.tokens) = {}

(***************************************************************************)
(* The fields of an Emoji token.                                           *)
(***************************************************************************)
EmojiTokens(tokens) == SelectSeq(tokens, is_emoji)

\* C20: every Emoji token the tokenizer produces has cps_input = the code
\* points of its input substring, cps_no_fe0f = cps_input with every U+FE0F
\* removed, and emoji = the pretty form stored for cps_no_fe0f in
\* emoji_no_fe0f_to_pretty; the lookup never misses for a matched sequence.
C20_EmojiTokenFields ==
    Done({"tokenize", "from_input"}) =>
        LET raw == TokenizeLoop(specs, input, finditer_emoji(specs, input), 1)
        IN  /\ \A i \in DOMAIN result.value.tokens : result.value.tokens[i] # TokenPanic
            /\ EmojiTokens(result.value.tokens) = EmojiTokens(raw)
            /\ \A i \in DOMAIN raw :
                   raw[i].type = "Emoji" =>
                       LET offset == BoundaryOffset(raw, i - 1)
                           size == Len(raw[i].cps_input)
                       IN  /\ size > 0
                           /\ offset + size <= Len(input)
                           /\ raw[i].cps_input = Slice(input, offset + 1, offset + size)
                           /\ raw[i].cps_no_fe0f =
                                  SelectSeq(raw[i].cps_input, LAMBDA cp : cp # CP_FE0F)
                           /\ raw[i].cps_no_fe0f \in DOMAIN specs.emoji_no_fe0f_to_pretty
                           /\ raw[i].emoji = specs.emoji_no_fe0f_to_pretty[raw[i].cps_no_fe0f]

C20_Witness ==
    /\ Done({"tokenize", "from_input"})
    /\ \E i \in DOMAIN result.value.tokens :
           /\ result.value.tokens[i].type = "Emoji"
           /\ result.value.tokens[i].cps_input # result.value.tokens[i].cps_no_fe0f
    /\ \E i \in DOMAIN result.value.tokens :
           /\ result.value.tokens[i].type = "Emoji"
           /\ i > 1
           /\ result.value.tokens[i].cps_input # result.value.tokens[i].emoji

(***************************************************************************)
(* Selective NFC.                                                          *)
(***************************************************************************)
IsRunToken(t) == t.type \in {"Valid", "Mapped", "Ignored", "Nfc"}

\* The stretches of Valid / Mapped / Ignored / Nfc tokens between the tokens
\* of the other types (Emoji, Disallowed, Stop), left to right.
RECURSIVE SplitAtBreaks(_, _)
SplitAtBreaks(tokens, current) ==
    IF tokens = <<>> THEN <<current>>
    ELSE IF IsRunToken(Head(tokens))
         THEN SplitAtBreaks(Tail(tokens), Append(current, Head(tokens)))
         ELSE <<current>> \o SplitAtBreaks(Tail(tokens), <<>>)

Breaks(tokens) == SelectSeq(tokens, LAMBDA t : ~IsRunToken(t))

\* The code points of the Valid and Mapped tokens of a stretch.
RunCps(stretch) ==
    Flatten([i \in DOMAIN stretch |->
        IF stretch[i].type \in {"Valid", "Mapped"} THEN stretch[i].cps ELSE <<>>])

TouchesNfcCheck(stretch) == \E cp \in Range(RunCps(stretch)) : cp \in specs.nfc_check

\* C21: every Nfc token of the tokenizer output has an input that holds at
\* least one nfc_check code point and a cps different from its input, and a
\* run of Valid / Mapped tokens with no nfc_check code point is left as it
\* was classified.
C21_NfcOnlyWhereNeeded ==
    Done({"tokenize"}) =>
        LET raw == TokenizeLoop(specs, input, finditer_emoji(specs, input), 1)
            out == TokensBeforeCollapse(input, specs, TRUE)
            before == SplitAtBreaks(raw, <<>>)
            after == SplitAtBreaks(out, <<>>)
        IN  /\ \A i \in DOMAIN result.value.tokens :
                   result.value.tokens[i].type = "Nfc" =>
                       /\ \E cp \in Range(result.value.tokens[i].input) :
                              cp \in specs.nfc_check
                       /\ result.value.tokens[i].cps # result.value.tokens[i].input
            /\ Breaks(out) = Breaks(raw)
            /\ Len(after) = Len(before)
            /\ \A k \in DOMAIN before :
                   ~TouchesNfcCheck(before[k]) => after[k] = before[k]

C21_Witness ==
    /\ Done({"tokenize"})
    /\ \E i \in DOMAIN result.value.tokens : result.value.tokens[i].type = "Nfc"
    /\ \E i \in DOMAIN result.value.tokens : result.value.tokens[i].type = "Mapped"

\* The stretch with its maximal run, from the first Valid / Mapped token to
\* the last, replaced by one Nfc token; Ignored tokens outside the run kept.
WholeRunReplaced(stretch) ==
    LET text == {i \in DOMAIN stretch : stretch[i].type \in {"Valid", "Mapped"}}
        first == CHOOSE i \in text : \A j \in text : i <= j
        last == CHOOSE i \in text : \A j \in text : i >= j
    IN  Slice(stretch, 1, first - 1)
            \o <<TokenNfc(RunCps(stretch), nfc(RunCps(stretch)))>>
            \o Slice(stretch, last + 1, Len(stretch))

\* C22: when a maximal run of Valid / Mapped tokens (Ignored tokens may
\* interleave) holds an nfc_check code point and NFC changes its
\* concatenated code points, the entire run, from its first Valid / Mapped
\* token to its last, is replaced by a single Nfc token whose input is the
\* run's code points and whose cps is their NFC; when NFC is a no-op the
\* run's tokens are unchanged.
C22_NfcOnMaximalRuns ==
    Done({"tokenize"}) =>
        LET raw == TokenizeLoop(specs, input, finditer_emoji(specs, input), 1)
            out == TokensBeforeCollapse(input, specs, TRUE)
            before == SplitAtBreaks(raw, <<>>)
            after == SplitAtBreaks(out, <<>>)
        IN  /\ Len(after) = Len(before)
            /\ \A k \in DOMAIN before :
                   TouchesNfcCheck(before[k]) =>
                       after[k] = IF nfc(RunCps(before[k])) # RunCps(before[k])
                                  THEN WholeRunReplaced(before[k])
                                  ELSE before[k]

(***************************************************************************)
(* Emoji matching.                                                         *)
(***************************************************************************)
\* The strings a pretty emoji stands for: any of its FE0F may be left out.
RECURSIVE Variants(_)
Variants(e) ==
    IF e = <<>> THEN {<<>>}
    ELSE LET rest == Variants(Tail(e))
         IN  {<<Head(e)>> \o r : r \in rest} \cup (IF Head(e) = CP_FE0F THEN rest ELSE {})

\* The pretty emoji with a form that stands in str at position pos (1-based).
MatchingEmoji(sp, str, pos) ==
    {e \in Range(sp.emoji_regex) :
        \E v \in Variants(e) :
            /\ pos + Len(v) - 1 <= Len(str)
            /\ Slice(str, pos, pos + Len(v) - 1) = v}

\* C23: walking the input left to right, wherever one or more emoji
\* patterns (each pretty emoji with every FE0F optional) match at the
\* current position the tokenizer emits an Emoji token for the pattern that
\* is longest by code points without FE0F, and it emits single-code-point
\* tokens only where no emoji pattern matches; emoji tokens never overlap.
C23_LongestEmojiMatch ==
    Done({"tokenize", "from_input"}) =>
        LET raw == TokenizeLoop(specs, input, finditer_emoji(specs, input), 1)
        IN  /\ Flatten([i \in DOMAIN raw |-> TokenInput(raw[i])]) = input
            /\ EmojiTokens(result.value.tokens) = EmojiTokens(raw)
            /\ \A i \in DOMAIN raw :
                   LET matching == MatchingEmoji(specs, input, BoundaryOffset(raw, i - 1) + 1)
                   IN  IF matching = {}
                       THEN raw[i].type # "Emoji" /\ Len(TokenInput(raw[i])) = 1
                       ELSE /\ raw[i].type = "Emoji"
                            /\ \E e \in matching :
                                   /\ raw[i].cps_no_fe0f = SelectSeq(e, LAMBDA cp : cp # CP_FE0F)
                                   /\ raw[i].cps_input \in Variants(e)
                                   /\ \A f \in matching :
                                          Len(SelectSeq(f, LAMBDA cp : cp # CP_FE0F))
                                              <= Len(raw[i].cps_no_fe0f)

C23_Witness ==
    /\ Done({"tokenize", "from_input"})
    /\ Cardinality(MatchingEmoji(specs, input, 1)) > 1
    /\ result.value.tokens # <<>>
    /\ result.value.tokens[1].type = "Emoji"
    /\ Len(result.value.tokens[1].cps_no_fe0f) = 3

(***************************************************************************)
(* Group determination.                                                    *)
(***************************************************************************)
\* The label gets past rules 1 to 7.
ReachesGroupStep(label) ==
    ReachesCmRule(label) /\ check_cm_leading_emoji(label, specs).ok

\* U: the unique code points of the Valid, Mapped and Nfc tokens of a label.
UniqueTextCps(label) ==
    UNION {Range(label[i].cps) : i \in {j \in DOMAIN label : is_text(label[j])}}

\* The groups, by position in spec order, that hold every code point of U.
GroupsHolding(U) ==
    {g \in DOMAIN specs.groups :
        U \subseteq (specs.groups[g].primary \cup specs.groups[g].secondary)}

\* C24: for a label that reaches the group step, with U the set of unique
\* code points of its Valid, Mapped and Nfc tokens, the label type on
\* success is the name of the first group in spec order whose primary and
\* secondary together hold all of U, whatever the order in which U is
\* enumerated; if no group holds all of U the label fails with a Confused
\* error.
C24_GroupDetermination ==
    Done({"process"}) =>
        LET labels == LabelsOfInput
            failing == FailingLabels(labels)
        IN  \A k \in ReachedLabels(labels, failing) :
                ReachesGroupStep(labels[k]) =>
                    LET holding == GroupsHolding(UniqueTextCps(labels[k]))
                    IN  IF holding = {}
                        THEN /\ FailsAt(k, failing)
                             /\ result.err.kind = "Confused"
                        ELSE result.ok =>
                                 result.value.labels[k].label_type =
                                     specs.groups[Minimum(holding)].name

C24_Witness ==
    /\ Done({"process"})
    /\ result.ok
    /\ LabelsOfInput # <<>>
    /\ ReachesGroupStep(LabelsOfInput[1])
    /\ Cardinality(GroupsHolding(UniqueTextCps(LabelsOfInput[1]))) > 1
    /\ Cardinality(UniqueTextCps(LabelsOfInput[1])) > 1
    /\ result.value.labels[1].label_type = "Latin"

(***************************************************************************)
(* The NSM rule.                                                           *)
(***************************************************************************)
\* D: the text code points of a label, each replaced by its decomposition.
DecomposedText(label) ==
    LET cps == Flatten([i \in DOMAIN label |-> IF is_text(label[i]) THEN label[i].cps ELSE <<>>])
    IN  Flatten([i \in DOMAIN cps |->
            IF cps[i] \in DOMAIN specs.decomp THEN specs.decomp[cps[i]] ELSE <<cps[i]>>])

NsmRun(d, a, b) == a <= b /\ \A i \in a..b : d[i] \in specs.nsm

\* Some run of non-spacing marks of d is longer than nsm_max.
NsmRunTooLong(d) ==
    \E a, b \in DOMAIN d : NsmRun(d, a, b) /\ b - a + 1 > specs.nsm_max

\* Some run of non-spacing marks of d holds a code point twice.
NsmRunRepeats(d) ==
    \E a, b \in DOMAIN d : a < b /\ NsmRun(d, a, b) /\ d[a] = d[b]

NsmErrors == {"NsmTooMany", "NsmRepeated"}

\* C25: for a label whose group has no cm list, with D the decomposition of
\* its text code points, the label passes the NSM rule exactly when every
\* maximal run of non-spacing marks in D has length <= nsm_max and holds no
\* code point twice; a run that is too long fails with NsmTooMany and a run
\* with a repeated code point with NsmRepeated (either one when a label has
\* both defects); for a group with a non-empty cm list the rule is not
\* applied.
C25_NsmRule ==
    Done({"process"}) =>
        LET labels == LabelsOfInput
            failing == FailingLabels(labels)
        IN  \A k \in ReachedLabels(labels, failing) :
                (ReachesGroupStep(labels[k])
                    /\ GroupsHolding(UniqueTextCps(labels[k])) # {}) =>
                    LET G == specs.groups[Minimum(GroupsHolding(UniqueTextCps(labels[k])))]
                        D == DecomposedText(labels[k])
                    IN  IF G.cm_absent /\ (NsmRunTooLong(D) \/ NsmRunRepeats(D))
                        THEN /\ FailsAt(k, failing)
                             /\ result.err.kind \in NsmErrors
                             /\ result.err.kind = "NsmTooMany" => NsmRunTooLong(D)
                             /\ result.err.kind = "NsmRepeated" => NsmRunRepeats(D)
                        ELSE FailsAt(k, failing) => result.err.kind \notin NsmErrors

C25_Witness ==
    /\ Done({"process"})
    /\ ~result.ok
    /\ result.err.kind = "NsmTooMany"
    /\ LabelsOfInput # <<>>
    /\ ~NsmRunRepeats(DecomposedText(LabelsOfInput[1]))
    /\ \E i \in DOMAIN LabelsOfInput[1] : LabelsOfInput[1][i].type = "Nfc"

(***************************************************************************)
(* Whole-script confusables.                                               *)
(***************************************************************************)
\* The code points of U with a WholeObject entry, with a Number entry, and
\* with no entry (the shared ones).
WholeObjectCps(U) ==
    {cp \in U : cp \in DOMAIN specs.whole_map /\ specs.whole_map[cp].kind = "WholeObject"}

NumberCps(U) ==
    {cp \in U : cp \in DOMAIN specs.whole_map /\ specs.whole_map[cp].kind = "Number"}

SharedCps(U) == {cp \in U : cp \notin DOMAIN specs.whole_map}

GroupsNamed(name) == {g \in DOMAIN specs.groups : specs.groups[g].name = name}

\* No M entry of whole_map names a group that holds the code point itself.
WholeMapNamesOtherGroups ==
    \A cp \in DOMAIN specs.whole_map :
        specs.whole_map[cp].kind = "WholeObject" =>
            \A name \in Range(specs.whole_map[cp].m) :
                \A g \in GroupsNamed(name) :
                    cp \notin (specs.groups[g].primary \cup specs.groups[g].secondary)

\* The three conditions on group2, for the label the call failed at.
ConfusedGroupsJustified(U) ==
    /\ \A cp \in WholeObjectCps(U) : result.err.group2 \in Range(specs.whole_map[cp].m)
    /\ WholeObjectCps(U) # {}
    /\ \E g \in GroupsNamed(result.err.group2) :
           SharedCps(U) \subseteq (specs.groups[g].primary \cup specs.groups[g].secondary)
    /\ result.err.group2 # result.err.group1

C27_NumberShortCircuit ==
    Done({"process"}) =>
        LET labels == LabelsOfInput
            failing == FailingLabels(labels)
        IN  \A k \in ReachedLabels(labels, failing) :
                (ReachesGroupStep(labels[k]) /\ NumberCps(UniqueTextCps(labels[k])) # {}) =>
                    /\ \A r \in ValidateLabelOutcomes(labels[k], specs) :
                           r.err.kind \notin {"ConfusedGroups", "Panic"}
                    /\ FailsAt(k, failing) => result.err.kind # "ConfusedGroups"

C27_Witness ==
    /\ Done({"process"})
    /\ result.ok
    /\ LabelsOfInput # <<>>
    /\ NumberCps(UniqueTextCps(LabelsOfInput[1])) # {}
    /\ WholeObjectCps(UniqueTextCps(LabelsOfInput[1])) # {}
    /\ result.value.labels[1].label_type = "Cyrillic"

(***************************************************************************)
(* Ignored code points.                                                    *)
(***************************************************************************)
\* What a caller sees of an error: its kind, and for a CurrableError the
\* rule that failed.
ErrorKind(e) == IF e.kind = "CurrableError" THEN <<e.kind, e.inner>> ELSE <<e.kind>>

\* C28: for a label that has at least one non-Ignored token, inserting
\* Ignored tokens between its tokens (at the start, in the middle or at the
\* end) changes neither whether process succeeds, nor the error kind, nor
\* the normalized output of the name.
C28_IgnoredDoNotInfluence ==
    (/\ Done({"process", "normalize"})
     /\ prev # NoCall
     /\ prev.op = op
     /\ \E i \in DOMAIN tokenize(prev.input, specs).tokens :
            tokenize(prev.input, specs).tokens[i].type # "Ignored") =>
        /\ result.ok = prev.result.ok
        /\ ErrorKind(result.err) = ErrorKind(prev.result.err)
        /\ (op = "normalize" /\ result.ok) => result.value = prev.result.value

(***************************************************************************)
(* Labels without text.                                                    *)
(***************************************************************************)
\* Every token of the label is an Emoji or an Ignored token, and one is an
\* Emoji.
EmojiAndIgnoredOnly(label) ==
    /\ \A i \in DOMAIN label : label[i].type \in {"Emoji", "Ignored"}
    /\ \E i \in DOMAIN label : label[i].type = "Emoji"

\* The label types that are not the name of a script group.
NoScriptTypes == {"Emoji", "ASCII"}

\* C29: a valid label all of whose non-Ignored tokens are Emoji tokens is
\* classified with label type Emoji; a label with no text code points (U
\* empty) is never assigned a script group name.
C29_EmojiLabelType ==
    (Done({"process"}) /\ result.ok) =>
        \A k \in DOMAIN result.value.labels :
            LET label == result.value.labels[k]
            IN  /\ EmojiAndIgnoredOnly(label.tokens) => label.label_type = "Emoji"
                /\ UniqueTextCps(label.tokens) = {} =>
                       label.label_type \in NoScriptTypes

(***************************************************************************)
(* Membership in the selected group.                                       *)
(***************************************************************************)
\* The error of the membership loop of check_group.
NotPresentInGroup(e) == e.kind = "Confused" /\ e.text = "not present in group"

\* C30: once group determination has selected a group G for a label, the
\* per-code-point membership check against G never fails: the error
\* "symbol not present in group" of check_group is not an outcome of
\* check_and_get_group, whatever the label and the spec data.
C30_MembershipNeverFails ==
    Done({"process"}) =>
        LET labels == LabelsOfInput
            failing == FailingLabels(labels)
        IN  /\ ~NotPresentInGroup(result.err)
            /\ \A k \in ReachedLabels(labels, failing) :
                   \A r \in ValidateLabelOutcomes(labels[k], specs) :
                       ~NotPresentInGroup(r.err)

\* A label with code points of two scripts and a repeated code point went
\* through group determination and the membership loop.
C30_Witness ==
    /\ Done({"process"})
    /\ LabelsOfInput # <<>>
    /\ ReachesGroupStep(LabelsOfInput[1])
    /\ LET cps == get_cps_of_not_ignored_text(LabelsOfInput[1])
       IN  /\ Len(cps) > Cardinality(Range(cps))
           /\ Cardinality(Range(cps)) > 1
           /\ \A u \in HashSetOrders(Range(cps)) : determine_group(u, specs).ok
           /\ \E i \in DOMAIN cps : cps[i] \notin Head(specs.groups).primary

====
